---- MODULE Spec2Model ----
(***************************************************************************)
(* Model of the chunk generation queue (chunkGenerationQueue.ts) and of    *)
(* the WorldMap / Chunk classes it drives (chunkManagement.ts), with the   *)
(* hex grid helpers of HEX_UTILS.                                          *)
(*                                                                         *)
(* Objects are modelled as a heap: `objs` holds every Chunk ever           *)
(* constructed, a chunk reference is an index into it.  Promises are a     *)
(* second heap, `promises`.  JavaScript Maps keep insertion order, so      *)
(* WorldMap.chunks and ChunkGenerationQueue.tasks are sequences.           *)
(* hexSize only feeds the cached Cartesian position of a chunk, which no   *)
(* operation of the queue or the WorldMap reads; it is left out.           *)
(***************************************************************************)
EXTENDS Integers, Sequences, FiniteSets, TLC

\* ---------------------------------------------------------------- bounds
\* Chunk radius in rings handed to every enqueue (the session-wide radius).
Rings == 8
\* How many tasks (promises) may be created over a behaviour.
MaxTasks == 2
\* How many Chunk objects may be constructed over a behaviour.
MaxChunks == 2
\* Largest priority an enqueue passes.
MaxPriority == 2
\* The time a slow step call takes (ms); a fast one takes 0.
SlowStepTime == 6
\* How many createChunk calls may be made over a behaviour.
MaxCalls == 2
\* How many queue tasks may be created beside the createChunk calls.
MaxSessionTasks == 1
\* Centers handed to calculateChunkNeighbors: q, r in -MaxCoord..MaxCoord.
MaxCoord == 2
\* Radii handed to calculateChunkNeighbors: 0..MaxProbeRings.
MaxProbeRings == 4
\* The small session radii tried besides Rings: 0..MaxSmallRings.
MaxSmallRings == 2
\* Chunk radius of the sessions in which the grid is rendered.
RenderRings == 1
\* How many renderGridAsync calls may be made over a behaviour.
MaxPasses == 2
\* How many different layouts generate_layout may come up with.
MaxLayouts == 2
\* Positions of the ground plane are kept in 1/PosScale of a hex.
PosScale == 2
\* The avatar moves StepHexes hexes at a time along q or r and stays within
\* MaxLocal hexes of the local origin; it stops moving once the accumulated
\* hex offset has left -MaxOffset..MaxOffset.
StepHexes == 45
MaxLocal == 90
MaxOffset == 180
\* Chunk radius of the sessions with proximity checks.
TickRings == 1
\* How far away (in hexes) the far chunk and the far tile lie.
FarHexes == 300
\* Chunks of a session with proximity checks (two created, one preloaded).
MaxTickChunks == 3
\* Render passes the proximity checks of a session start.
MaxTickPasses == 4
\* Layers of the hexagon a layout run works on (the program uses 30).
LayoutLayer == 5
\* Shuffles of the road expansion whose outcome is chosen (the later ones
\* bring the first hex to the front).
MaxExpansions == 3
\* How many of the first hexes a shuffle may bring to the front.
MaxPicks == 2

\* Frames counted after the first enqueue (one more than the largest number
\* of frames a chunk of radius Rings is given).
MaxFrames == 6
\* The lattice of chunk centers: the largest radius, how many times the
\* packing neighbors are taken from the origin, and the radius of the region
\* of hexes that is looked at.
MaxLatticeRings == 3
MaxLatticeDepth == 2
RegionRadius == 5
\* Session radii of the sessions with render passes.
MaxSessionRings == 2

\* ------------------------------------------------------ program constants
\* new ChunkGenerationQueue(5), and the constructor's default.
DefaultFrameBudget == 5
GRID_BATCH_SIZE == 150
SPATIAL_INDEX_BATCH_SIZE == 200
\* BATCH_SIZE of Chunk.initializeAsync and of updateSpatialIndexIncremental.
INIT_BATCH_SIZE == 150
INDEX_BATCH_SIZE == 200
\* TILE_CONFIG.modelDepth; hexSize is modelDepth / 3.
modelDepth == 20
\* CanvasManager.floatingOriginThreshold
floatingOriginThreshold == 1000
\* CanvasManager.baseRings before any setCurrentRings: the radius the tile
\* lookup is called with while the chunks were made with currentRings.
DefaultBaseRings == 1

\* Chunk centers the callers ask for: the origin and a center one hex away,
\* so that the two chunks share most of their tile hexes.
Centers == { [q |-> 0, r |-> 0], [q |-> 1, r |-> 0] }
Priorities == 1..MaxPriority
StepTimes == {0, SlowStepTime}
\* The session radii a WorldMap is filled with.
GridRings == (0..MaxSmallRings) \cup {Rings}
\* The tiles looked up: the two centers and a tile on the rim of the origin
\* chunk that lies outside the other chunk.
LookupTiles == Centers \cup { [q |-> 0 - Rings, r |-> 0] }
\* The radius a lookup is called with: getBaseRings().
LookupRings == {DefaultBaseRings, Rings}

Range(s) == { s[i] : i \in 1..Len(s) }
Min2(a, b) == IF a < b THEN a ELSE b
Abs(x) == IF x < 0 THEN -x ELSE x

\* ------------------------------------------------------------- HEX_UTILS
CUBE_DIRECTIONS ==
  << [q |-> 1,  r |-> 0,  s |-> -1],
     [q |-> 1,  r |-> -1, s |-> 0],
     [q |-> 0,  r |-> -1, s |-> 1],
     [q |-> -1, r |-> 0,  s |-> 1],
     [q |-> -1, r |-> 1,  s |-> 0],
     [q |-> 0,  r |-> 1,  s |-> -1] >>

\* distance(q1, r1, q2, r2): the sum is always even, so the division is exact.
distance(q1, r1, q2, r2) ==
  (Abs(q1 - q2) + Abs(q1 + r1 - q2 - r2) + Abs(r1 - r2)) \div 2

axialToCube(q, r) == [q |-> q, r |-> r, s |-> -q - r]
cube_add(a, b) == [q |-> a.q + b.q, r |-> a.r + b.r, s |-> a.s + b.s]
cube_scale(hex, factor) ==
  [q |-> hex.q * factor, r |-> hex.r * factor, s |-> hex.s * factor]
\* direction is 0-based in the source; sequences are 1-based here.
cubeNeighbor(cube, direction) == cube_add(cube, CUBE_DIRECTIONS[(direction % 6) + 1])

\* `steps` successive calls of cubeNeighbor in one direction: each adds the
\* direction vector once.
Walk(hex, direction, steps) ==
  cube_add(hex, cube_scale(CUBE_DIRECTIONS[(direction % 6) + 1], steps))

\* currentHex when the outer loop of cubeRing enters side i: the sides before
\* it have each been walked for `radius` steps.
RECURSIVE SideStart(_, _, _)
SideStart(start, i, radius) ==
  IF i = 0 THEN start ELSE Walk(SideStart(start, i - 1, radius), i - 1, radius)

\* A ring traced from the corner in direction 3, not direction 4.
cubeRing_WrongCorner(center, radius) ==
  IF radius = 0 THEN << center >>
  ELSE LET start == cube_add(center, cube_scale(CUBE_DIRECTIONS[4], radius))
       IN [k \in 1..(6 * radius) |->
             Walk(SideStart(start, (k - 1) \div radius, radius),
                  (k - 1) \div radius, (k - 1) % radius)]

\* The two nested loops of cubeRing push, for side i in 0..5 and step j in
\* 0..radius-1, the hex reached after j steps along side i.
cubeRing(center, radius) ==
  IF radius = 0 THEN << center >>
  ELSE LET start == cube_add(center, cube_scale(CUBE_DIRECTIONS[5], radius))
       IN [k \in 1..(6 * radius) |->
             Walk(SideStart(start, (k - 1) \div radius, radius),
                  (k - 1) \div radius, (k - 1) % radius)]

\* The "q,r,s" key of a cube coordinate (the triple of its parts).
cubeKey(cube) == << cube.q, cube.r, cube.s >>

\* Every key handed to gridSet.add, in order: ring 0, ring 1, ... maxLayer.
RECURSIVE RingKeysUpTo(_, _)
RingKeysUpTo(centerCube, layer) ==
  IF layer < 0 THEN << >>
  ELSE LET ring == cubeRing(centerCube, layer)
       IN RingKeysUpTo(centerCube, layer - 1) \o [k \in 1..Len(ring) |-> cubeKey(ring[k])]

\* An insertion-ordered Set keeps the first occurrence of every key.
SetOf(added) ==
  LET numbered == [k \in 1..Len(added) |-> << k, added[k] >>]
      first == SelectSeq(numbered,
                 LAMBDA e : \A j \in 1..(e[1] - 1) : added[j] # e[2])
  IN [k \in 1..Len(first) |-> first[k][2]]

\* The keys are parsed back in order; a key whose parts do not sum to 0 is
\* dropped.
KeysToGrid(keys) ==
  LET valid == SelectSeq(keys, LAMBDA key : key[1] + key[2] + key[3] = 0)
  IN [k \in 1..Len(valid) |-> [q |-> valid[k][1], r |-> valid[k][2]]]

generateHexGrid(maxLayer, centerQ, centerR) ==
  KeysToGrid(SetOf(RingKeysUpTo(axialToCube(centerQ, centerR), maxLayer)))

\* generateHexGrid is a pure function of its arguments; its values for the
\* centers of the model are computed once.
HexGridOf == [c \in Centers |-> generateHexGrid(Rings, c.q, c.r)]

\* ------------------------------------------------------ values and Maps
\* null / undefined, and a present value, for fields typed "T | null".
None == << >>
Some(x) == << x >>
\* A chunk reference is an index into objs; 0 is undefined.
NoChunk == 0
\* A promise reference is an index into promises; 0 is "no promise".
NoPromise == 0
\* A step function reference (ProcessingStep | null).
NoStep == "null"

\* `${q},${r}`: two hexes have the same key iff they have the same q and r.
getChunkKey(positionHex) == << positionHex.q, positionHex.r >>
getTaskKey(chunkHex) == << chunkHex.q, chunkHex.r >>
tileKeyOf(hex) == << hex.q, hex.r >>

\* A JavaScript Map is a sequence of [key, value] entries in insertion order.
MapHas(map, key) == \E i \in 1..Len(map) : map[i].key = key
MapIndex(map, key) == CHOOSE i \in 1..Len(map) : map[i].key = key
MapGet(map, key) == map[MapIndex(map, key)].value
MapValues(map) == [i \in 1..Len(map) |-> map[i].value]
\* set keeps the position of a key that is already there, else appends.
MapSet(map, key, value) ==
  IF MapHas(map, key)
    THEN [map EXCEPT ![MapIndex(map, key)].value = value]
    ELSE Append(map, [key |-> key, value |-> value])
MapDelete(map, key) == SelectSeq(map, LAMBDA e : e.key # key)

\* ------------------------------------------------------------------ state
VARIABLES
  chunks,        \* WorldMap.chunks: Map from chunk key to Chunk reference
  objs,          \* every Chunk object constructed so far
  spatialIndex,  \* WorldMap.spatialIndex: tile key -> chunk position
  tasks,         \* ChunkGenerationQueue.tasks: Map from task key to task
  promises,      \* every task promise created so far
  frameBudget,   \* ChunkGenerationQueue.frameBudget
  ret,           \* what the last call returned
  issued,        \* per promise, the chunk position whose enqueue created it
  log,           \* per promise, the step calls and settlements of its task
  currentRings,  \* CanvasManager.currentRings: the session's chunk radius
  baseRings,     \* CanvasManager.baseRings: the radius chunks are made and looked up with
  calls,         \* the createChunk calls made so far, with where each one is
  probe,         \* a function call looked at on its own: its arguments and result
  passes,        \* the renderGridAsync calls made so far, with where each one is
  layout,        \* the layout the wasm module holds (what get_tile_at reads)
  avatarPosition,        \* position of the avatar mesh (local coordinates)
  currentFloatingOrigin, \* CanvasManager.currentFloatingOrigin
  worldHexOffset,        \* CanvasManager.worldHexOffset
  previousTileHex,       \* the tile of the last proximity check (or null)
  currentChunkHex,       \* the chunk the avatar was last found in (or null)
  distanceCheckCache,    \* what the last disableDistantChunks worked from
  preConstraints,        \* what the last generatePreConstraintsFn call returned
  frames                 \* how many frames have called processNext since the first enqueue

\* The state outside the queue and the WorldMap's two Maps.
render == << passes, layout >>

\* The floating origin and what it follows.
origin == << avatarPosition, currentFloatingOrigin, worldHexOffset >>

\* The state of the frame loop outside the queue, the WorldMap and the
\* render passes.
\* What the proximity check keeps between frames.
proximity == << previousTileHex, currentChunkHex, distanceCheckCache >>

frame == << origin, proximity >>

\* What the queue's own methods never touch.
session == << currentRings, baseRings, calls, probe, render, frame, preConstraints >>

aux == << session, frames >>

vars == << chunks, objs, spatialIndex, tasks, promises, frameBudget, ret, issued,
           log, aux >>

\* ------------------------------------------------------------------ Chunk
\* new Chunk(positionHex, hexSize)
NewChunk(positionHex) ==
  [ positionHex    |-> positionHex,
    enabled        |-> TRUE,
    grid           |-> << >>,
    neighbors      |-> << >>,
    tilesGenerated |-> FALSE,
    initialized    |-> FALSE ]

\* A chunk that never reports itself initialized.
isInitialized_Never(o, chunk) == FALSE

\* Chunk.isInitialized() of the chunk object `chunk`.
isInitialized(o, chunk) == o[chunk].initialized

\* The tile pushed by the grid phase.
NewTile(hex) ==
  [ hex |-> hex, tileType |-> "null", enabled |-> TRUE, meshInstance |-> "null" ]

\* A rotation that drops the sign of the new r.
RotateCW_NoSign(v) == [q |-> v.q + v.r, r |-> v.q]

\* One clockwise 60 degree rotation: (q, r) -> (q+r, -q).
RotateCW(v) == [q |-> v.q + v.r, r |-> -v.q]

RECURSIVE RotateTimes(_, _)
RotateTimes(v, n) == IF n = 0 THEN v ELSE RotateTimes(RotateCW(v), n - 1)

RECURSIVE NeighborLoop(_, _, _, _)
NeighborLoop(center, current, i, neighbors) ==
  IF i = 6 THEN neighbors
  ELSE NeighborLoop(center, RotateCW(current), i + 1,
         Append(neighbors, [q |-> center.q + current.q, r |-> center.r + current.r]))

calculateChunkNeighbors_Straight(center, rings) ==
  NeighborLoop(center, RotateTimes([q |-> 2 * rings + 1, r |-> 0], 4), 0, << >>)

calculateChunkNeighbors(center, rings) ==
  LET offset == IF rings = 0 THEN [q |-> 1, r |-> 0]
                ELSE [q |-> rings, r |-> rings + 1]
  IN NeighborLoop(center, RotateTimes(offset, 4), 0, << >>)

\* --------------------------------------------------------------- WorldMap
getChunk(ch, positionHex) ==
  IF MapHas(ch, getChunkKey(positionHex))
    THEN MapGet(ch, getChunkKey(positionHex)) ELSE NoChunk

hasChunk(ch, positionHex) == MapHas(ch, getChunkKey(positionHex))

\* A placeholder that is not stored.
addChunkPlaceholder_Dropped(ch, positionHex, chunk) == ch

addChunkPlaceholder(ch, positionHex, chunk) ==
  IF ~ MapHas(ch, getChunkKey(positionHex))
    THEN MapSet(ch, getChunkKey(positionHex), chunk)
    ELSE ch

\* Map.set on the spatial index (a function from the keys present).
addSpatialIndexEntry(index, tileKey, chunkHex) == (tileKey :> chunkHex) @@ index

\* ------------------------------------------------------------- promises
NewPromise == [state |-> "pending", value |-> "none"]

\* resolve / reject settle a promise once; later calls change nothing.
PromiseResolve(ps, p, chunk) ==
  IF ps[p].state = "pending"
    THEN [ps EXCEPT ![p] = [state |-> "fulfilled", value |-> chunk]]
    ELSE ps

\* A reject that leaves the promise as it was.
PromiseReject_Dropped(ps, p, message) == ps

PromiseReject(ps, p, message) ==
  IF ps[p].state = "pending"
    THEN [ps EXCEPT ![p] = [state |-> "rejected", value |-> message]]
    ELSE ps

\* What the last call returned and the return statement it left by.
\* promise: the task promise returned by enqueue; ready: the chunk of a
\* Promise.resolve(chunk); more: processNext's boolean; hex: the chunk position
\* a lookup returned.
Ret(op, branch, promise, ready, more) ==
  [op |-> op, branch |-> branch, promise |-> promise, ready |-> ready, more |-> more,
   hex |-> None]

\* What a lookup returned: Some(chunk position) or None for null.
RetHex(op, branch, hex) ==
  [op |-> op, branch |-> branch, promise |-> NoPromise, ready |-> NoChunk,
   more |-> FALSE, hex |-> hex]

\* --------------------------------------------------- ChunkGenerationQueue
hasTask(chunkHex) == MapHas(tasks, getTaskKey(chunkHex))

NewTask(chunkHex, rings, priority, promise) ==
  [ chunkHex        |-> chunkHex,
    rings           |-> rings,
    priority        |-> priority,
    status          |-> "pending",
    promise         |-> promise,
    processingState |-> None,
    currentStep     |-> NoStep ]

\* A placeholder that is constructed and stored whether or not the center has
\* a chunk.
EnsurePlaceholder_Always(ch, o, existingChunk, chunkHex) ==
  [chunks |-> MapSet(ch, getChunkKey(chunkHex), Len(o) + 1),
   objs   |-> Append(o, NewChunk(chunkHex))]

\* if (!existingChunk) worldMap.addChunkPlaceholder(chunkHex, new Chunk(...)):
\* the WorldMap chunks and the chunk objects after it.
EnsurePlaceholder(ch, o, existingChunk, chunkHex) ==
  IF existingChunk = NoChunk
    THEN [chunks |-> addChunkPlaceholder(ch, chunkHex, Len(o) + 1),
          objs   |-> Append(o, NewChunk(chunkHex))]
    ELSE [chunks |-> ch, objs |-> o]

\* A priority that is overwritten, not raised.
RaisePriority_Overwrite(existing, priority) == [existing EXCEPT !.priority = priority]

\* if (priority > existing.priority) existing.priority = priority
RaisePriority(existing, priority) ==
  IF priority > existing.priority
    THEN [existing EXCEPT !.priority = priority]
    ELSE existing

\* enqueue(chunkHex, rings, hexSize, priority, worldMap)
Enqueue(chunkHex, rings, priority) ==
  LET key == getTaskKey(chunkHex)
      existingChunk == getChunk(chunks, chunkHex)
  IN
  IF MapHas(tasks, key) THEN
    \* task already exists: raise its priority, return its promise
    LET existing == MapGet(tasks, key) IN
    /\ tasks' = MapSet(tasks, key, RaisePriority(existing, priority))
    /\ ret' = Ret("enqueue", "existing", existing.promise, NoChunk, FALSE)
    /\ UNCHANGED << chunks, objs, spatialIndex, promises, frameBudget, issued, log, aux >>
  ELSE IF existingChunk # NoChunk /\ isInitialized(objs, existingChunk) THEN
    \* chunk is already initialized: Promise.resolve(existingChunk)
    /\ ret' = Ret("enqueue", "ready", NoPromise, existingChunk, FALSE)
    /\ UNCHANGED << chunks, objs, spatialIndex, tasks, promises, frameBudget, issued, log, aux >>
  ELSE
    \* new task, on the existing placeholder or on a new one
    /\ Len(promises) < MaxTasks
    /\ existingChunk = NoChunk => Len(objs) < MaxChunks
    /\ objs' = EnsurePlaceholder(chunks, objs, existingChunk, chunkHex).objs
    /\ chunks' = EnsurePlaceholder(chunks, objs, existingChunk, chunkHex).chunks
    /\ promises' = Append(promises, NewPromise)
    /\ log' = Append(log, << >>)
    /\ issued' = Append(issued, chunkHex)
    /\ tasks' = MapSet(tasks, key, NewTask(chunkHex, rings, priority, Len(promises) + 1))
    /\ ret' = Ret("enqueue", "created", Len(promises) + 1, NoChunk, FALSE)
    /\ UNCHANGED << spatialIndex, frameBudget, aux >>

createProcessingState(chunk, rings, chunkHex) ==
  [ chunk                  |-> chunk,
    rings                  |-> rings,
    chunkHex               |-> chunkHex,
    hexGrid                |-> None,
    validatedGrid          |-> << >>,
    gridBatchIndex         |-> 0,
    spatialIndexBatchIndex |-> 0,
    currentStep            |-> "grid" ]

\* The heap a step function works on: the chunk objects, the spatial index of
\* state.worldMap and the task's processing state.  A step returns the heap
\* after it and the step to run next.
Mem(o, idx, st) == [objs |-> o, index |-> idx, st |-> st]
StepResult(o, idx, st, next) == [objs |-> o, index |-> idx, st |-> st, next |-> next]

generateHexGridOnce(maxLayer, centerQ, centerR) ==
  IF maxLayer = Rings /\ [q |-> centerQ, r |-> centerR] \in Centers
    THEN HexGridOf[[q |-> centerQ, r |-> centerR]]
    ELSE generateHexGrid(maxLayer, centerQ, centerR)

\* The tiles pushed for a batch of hexes, in order: one for every hex that
\* lies within `rings` of the center.
ValidatedBatch(batch, chunkHex, rings) ==
  LET kept == SelectSeq(batch,
                LAMBDA hex : distance(chunkHex.q, chunkHex.r, hex.q, hex.r) <= rings)
  IN [k \in 1..Len(kept) |-> NewTile(kept[k])]

\* A grid step that hands over to the neighbor step after its first batch.
stepGenerateGrid_OneBatch(m) ==
  LET state == m.st
      hexGrid == IF state.hexGrid = None
                   THEN generateHexGridOnce(state.rings, state.chunkHex.q, state.chunkHex.r)
                   ELSE state.hexGrid[1]
      totalTiles == Len(hexGrid)
      batchEnd == Min2(state.gridBatchIndex + GRID_BATCH_SIZE, totalTiles)
      batch == SubSeq(hexGrid, state.gridBatchIndex + 1, batchEnd)
      validatedGrid == state.validatedGrid
                         \o ValidatedBatch(batch, state.chunkHex, state.rings)
      st1 == [state EXCEPT !.hexGrid = Some(hexGrid),
                           !.validatedGrid = validatedGrid,
                           !.gridBatchIndex = batchEnd]
  IN StepResult([m.objs EXCEPT ![state.chunk].grid = validatedGrid],
                m.index,
                [st1 EXCEPT !.currentStep = "neighbors"],
                "stepComputeNeighbors")

\* A grid step that installs the tile list on the chunk after every batch.
stepGenerateGrid_EachBatch(m) ==
  LET state == m.st
      hexGrid == IF state.hexGrid = None
                   THEN generateHexGridOnce(state.rings, state.chunkHex.q, state.chunkHex.r)
                   ELSE state.hexGrid[1]
      totalTiles == Len(hexGrid)
      batchEnd == Min2(state.gridBatchIndex + GRID_BATCH_SIZE, totalTiles)
      batch == SubSeq(hexGrid, state.gridBatchIndex + 1, batchEnd)
      validatedGrid == state.validatedGrid
                         \o ValidatedBatch(batch, state.chunkHex, state.rings)
      st1 == [state EXCEPT !.hexGrid = Some(hexGrid),
                           !.validatedGrid = validatedGrid,
                           !.gridBatchIndex = batchEnd]
      o1 == [m.objs EXCEPT ![state.chunk].grid = validatedGrid]
  IN IF batchEnd < totalTiles
       THEN StepResult(o1, m.index, st1, "stepGenerateGrid")
       ELSE StepResult(o1, m.index, [st1 EXCEPT !.currentStep = "neighbors"],
                       "stepComputeNeighbors")

\* Step 1: one batch of the grid per call.
stepGenerateGrid(m) ==
  LET state == m.st
      hexGrid == IF state.hexGrid = None
                   THEN generateHexGridOnce(state.rings, state.chunkHex.q, state.chunkHex.r)
                   ELSE state.hexGrid[1]
      totalTiles == Len(hexGrid)
      batchEnd == Min2(state.gridBatchIndex + GRID_BATCH_SIZE, totalTiles)
      batch == SubSeq(hexGrid, state.gridBatchIndex + 1, batchEnd)
      validatedGrid == state.validatedGrid
                         \o ValidatedBatch(batch, state.chunkHex, state.rings)
      st1 == [state EXCEPT !.hexGrid = Some(hexGrid),
                           !.validatedGrid = validatedGrid,
                           !.gridBatchIndex = batchEnd]
  IN IF batchEnd < totalTiles
       THEN StepResult(m.objs, m.index, st1, "stepGenerateGrid")
       ELSE StepResult([m.objs EXCEPT ![state.chunk].grid = validatedGrid],
                       m.index,
                       [st1 EXCEPT !.currentStep = "neighbors"],
                       "stepComputeNeighbors")

\* Step 2: neighbors, and the chunk is marked initialized.
stepComputeNeighbors(m) ==
  LET state == m.st
      neighbors == calculateChunkNeighbors(m.objs[state.chunk].positionHex, state.rings)
  IN StepResult([m.objs EXCEPT ![state.chunk].neighbors = neighbors,
                               ![state.chunk].initialized = TRUE],
                m.index,
                [state EXCEPT !.currentStep = "spatialIndex"],
                "stepUpdateSpatialIndex")

\* addSpatialIndexEntry for every tile of a batch.  All entries of a batch
\* carry the same chunkHex, so the entry a key ends with is the one a single
\* call for that key leaves.
IndexBatch(index, batch, chunkHex) ==
  LET keys == { tileKeyOf(batch[k].hex) : k \in 1..Len(batch) }
  IN [key \in DOMAIN index \cup keys |->
        IF key \in keys THEN addSpatialIndexEntry(index, key, chunkHex)[key]
        ELSE index[key]]

\* Step 3: one batch of spatial index entries per call.
stepUpdateSpatialIndex(m) ==
  LET state == m.st
      chunkGrid == m.objs[state.chunk].grid
      totalTiles == Len(chunkGrid)
      batchEnd == Min2(state.spatialIndexBatchIndex + SPATIAL_INDEX_BATCH_SIZE, totalTiles)
      batch == SubSeq(chunkGrid, state.spatialIndexBatchIndex + 1, batchEnd)
      index1 == IndexBatch(m.index, batch, state.chunkHex)
      st1 == [state EXCEPT !.spatialIndexBatchIndex = batchEnd]
  IN IF batchEnd < totalTiles
       THEN StepResult(m.objs, index1, st1, "stepUpdateSpatialIndex")
       ELSE StepResult(m.objs, index1, [st1 EXCEPT !.currentStep = "complete"], NoStep)

\* currentStep(task.processingState)
CallStep(step, m) ==
  CASE step = "stepGenerateGrid" -> stepGenerateGrid(m)
    [] step = "stepComputeNeighbors" -> stepComputeNeighbors(m)
    [] step = "stepUpdateSpatialIndex" -> stepUpdateSpatialIndex(m)

\* The comparator handed to Array.prototype.sort.
compareTasks(a, b) ==
  IF a.priority # b.priority THEN b.priority - a.priority
  ELSE IF a.status = "pending" /\ b.status # "pending" THEN -1
  ELSE IF a.status # "pending" /\ b.status = "pending" THEN 1
  ELSE 0

\* Array.prototype.sort is stable: x goes after every element that does not
\* compare greater than it.
RECURSIVE InsertSorted(_, _, _)
InsertSorted(sorted, x, k) ==
  IF k > Len(sorted) THEN Append(sorted, x)
  ELSE IF compareTasks(sorted[k], x) > 0
    THEN SubSeq(sorted, 1, k - 1) \o << x >> \o SubSeq(sorted, k, Len(sorted))
    ELSE InsertSorted(sorted, x, k + 1)

RECURSIVE SortFrom(_, _, _)
SortFrom(arr, k, sorted) ==
  IF k > Len(arr) THEN sorted
  ELSE SortFrom(arr, k + 1, InsertSorted(sorted, arr[k], 1))

sortedTasksOf(taskMap) == SortFrom(MapValues(taskMap), 1, << >>)

\* A loop that stops at pending tasks only.
IsReady_PendingOnly(candidateTask) == candidateTask.status = "pending"

\* A task the loop over sortedTasks stops at.
IsReady(candidateTask) ==
  \/ candidateTask.status = "pending"
  \/ candidateTask.status = "generating" /\ candidateTask.currentStep # NoStep

\* The first ready task of the sorted array, None when there is none.
FindReadyTask(sortedTasks) ==
  IF \E i \in 1..Len(sortedTasks) : IsReady(sortedTasks[i])
    THEN Some(sortedTasks[CHOOSE i \in 1..Len(sortedTasks) :
                /\ IsReady(sortedTasks[i])
                /\ \A j \in 1..(i - 1) : ~ IsReady(sortedTasks[j])])
    ELSE None

\* One entry of a task's log: a step call with the cursors it left, r being
\* what the call returned.
StepEvent(step, r) ==
  [ ev        |-> step,
    gridIndex |-> r.st.gridBatchIndex,
    gridTotal |-> IF r.st.hexGrid = None THEN 0 ELSE Len(r.st.hexGrid[1]),
    idxIndex  |-> r.st.spatialIndexBatchIndex,
    idxTotal  |-> Len(r.objs[r.st.chunk].grid) ]

Settled(ev) == [ev |-> ev, gridIndex |-> 0, gridTotal |-> 0, idxIndex |-> 0, idxTotal |-> 0]

\* Whether the elapsed time is over the frame budget.
OverBudget(elapsed, budget) == elapsed > budget

\* The while loop of processNext from `step` on, with `elapsed` ms used so far:
\* every way it can end, for every duration of each step call.  fin is
\* "budget" (returned true over budget, saved is the step stored in
\* task.currentStep) or "complete" (all steps ran within the budget).
RECURSIVE Drive_CheckFirst(_, _, _, _, _)
Drive_CheckFirst(m, step, elapsed, budget, events) ==
  UNION {
    LET now == elapsed + d IN
    IF OverBudget(now, budget)
      THEN { [objs |-> m.objs, index |-> m.index, st |-> m.st,
              saved |-> step, fin |-> "budget", events |-> events] }
      ELSE LET r == CallStep(step, m)
               evs == Append(events, StepEvent(step, r))
           IN IF r.next # NoStep
                THEN Drive_CheckFirst(Mem(r.objs, r.index, r.st), r.next, now, budget, evs)
                ELSE { [objs |-> r.objs, index |-> r.index, st |-> r.st,
                        saved |-> r.next, fin |-> "complete", events |-> evs] }
    : d \in StepTimes }
RECURSIVE Drive(_, _, _, _, _)
Drive(m, step, elapsed, budget, events) ==
  UNION {
    LET r == CallStep(step, m)
        now == elapsed + d
        evs == Append(events, StepEvent(step, r))
    IN IF OverBudget(now, budget)
         THEN { [objs |-> r.objs, index |-> r.index, st |-> r.st,
                 saved |-> r.next, fin |-> "budget", events |-> evs] }
         ELSE IF r.next # NoStep
           THEN Drive(Mem(r.objs, r.index, r.st), r.next, now, budget, evs)
           ELSE { [objs |-> r.objs, index |-> r.index, st |-> r.st,
                   saved |-> r.next, fin |-> "complete", events |-> evs] }
    : d \in StepTimes }

\* processNext(worldMap)
processNext ==
  LET sel == FindReadyTask(sortedTasksOf(tasks)) IN
  IF Len(tasks) = 0 \/ sel = None THEN
    /\ ret' = Ret("processNext", "idle", NoPromise, NoChunk, FALSE)
    /\ UNCHANGED << chunks, objs, spatialIndex, tasks, promises, frameBudget, issued,
                    log, session >>
  ELSE
    LET task == sel[1]
        key == getTaskKey(task.chunkHex)
        existingChunk == getChunk(chunks, task.chunkHex)
    IN
    IF task.status = "pending" /\ existingChunk = NoChunk THEN
      \* throw new Error('Chunk placeholder not found'), caught below
      /\ promises' = PromiseReject(promises, task.promise,
                       "Chunk generation failed: Chunk placeholder not found")
      /\ log' = [log EXCEPT ![task.promise] = Append(@, Settled("failed"))]
      /\ tasks' = MapDelete(tasks, key)
      /\ ret' = Ret("processNext", "failed", NoPromise, NoChunk,
                    Len(MapDelete(tasks, key)) > 0)
      /\ UNCHANGED << chunks, objs, spatialIndex, frameBudget, issued, session >>
    ELSE
      LET started == IF task.status = "pending"
                       THEN [task EXCEPT
                               !.status = "generating",
                               !.processingState = Some(createProcessingState(
                                   existingChunk, task.rings, task.chunkHex)),
                               !.currentStep = "stepGenerateGrid"]
                       ELSE task
      IN \E o \in Drive(Mem(objs, spatialIndex, started.processingState[1]),
                        started.currentStep, 0, frameBudget, << >>) :
           /\ objs' = o.objs
           /\ spatialIndex' = o.index
           /\ log' = [log EXCEPT ![task.promise] =
                        @ \o o.events \o
                        (IF o.fin = "complete" THEN << Settled("completed") >> ELSE << >>)]
           /\ IF o.fin = "budget"
                THEN /\ tasks' = MapSet(tasks, key,
                                   [started EXCEPT !.processingState = Some(o.st),
                                                   !.currentStep = o.saved])
                     /\ promises' = promises
                     /\ ret' = Ret("processNext", "budget", NoPromise, NoChunk, TRUE)
                ELSE /\ tasks' = MapDelete(tasks, key)
                     /\ promises' = PromiseResolve(promises, task.promise, o.st.chunk)
                     /\ ret' = Ret("processNext", "completed", NoPromise, NoChunk,
                                   Len(MapDelete(tasks, key)) > 0)
           /\ UNCHANGED << chunks, frameBudget, issued, session >>

\* processNext(worldMap), called outside the frame count.
ProcessNext == processNext /\ UNCHANGED frames

\* A loop that rejects the pending tasks only.
RECURSIVE RejectAll_PendingOnly(_, _, _)
RejectAll_PendingOnly(ps, taskSeq, k) ==
  IF k > Len(taskSeq) THEN ps
  ELSE RejectAll_PendingOnly(
         IF taskSeq[k].status = "pending"
           THEN PromiseReject(ps, taskSeq[k].promise, "Chunk generation queue cleared")
           ELSE ps,
         taskSeq, k + 1)

\* clear(): the loop that rejects every pending or generating task.
RECURSIVE RejectAll(_, _, _)
RejectAll(ps, taskSeq, k) ==
  IF k > Len(taskSeq) THEN ps
  ELSE RejectAll(
         IF taskSeq[k].status = "pending" \/ taskSeq[k].status = "generating"
           THEN PromiseReject(ps, taskSeq[k].promise, "Chunk generation queue cleared")
           ELSE ps,
         taskSeq, k + 1)

\* clear()
Clear ==
  /\ promises' = RejectAll(promises, MapValues(tasks), 1)
  /\ tasks' = << >>
  /\ ret' = Ret("clear", "done", NoPromise, NoChunk, FALSE)
  /\ log' = [p \in 1..Len(log) |->
               IF \E i \in 1..Len(tasks) : tasks[i].value.promise = p
                 THEN Append(log[p], Settled("cleared")) ELSE log[p]]
  /\ UNCHANGED << chunks, objs, spatialIndex, frameBudget, issued, aux >>

\* WorldMap.removeChunk(positionHex)
\* The loop over the chunk's tiles: the entry of a tile is deleted when it
\* points to this chunk.
RemoveOwned(index, chunkGrid, positionHex) ==
  LET owned == { tileKey \in { tileKeyOf(chunkGrid[k].hex) : k \in 1..Len(chunkGrid) } :
                   /\ tileKey \in DOMAIN index
                   /\ index[tileKey].q = positionHex.q
                   /\ index[tileKey].r = positionHex.r }
  IN [key \in DOMAIN index \ owned |-> index[key]]

RemoveChunk(positionHex) ==
  LET chunk == getChunk(chunks, positionHex) IN
  /\ IF chunk = NoChunk
       THEN UNCHANGED << chunks, spatialIndex >>
       ELSE /\ spatialIndex' = RemoveOwned(spatialIndex, objs[chunk].grid, positionHex)
            /\ chunks' = MapDelete(chunks, getChunkKey(positionHex))
  /\ ret' = Ret("removeChunk", "done", NoPromise, NoChunk, FALSE)
  /\ UNCHANGED << objs, tasks, promises, frameBudget, issued, log, aux >>

\* ------------------------------------------------- WorldMap.createChunk
\* A createChunk call: the chunk it works on, where it is suspended (pc is
\* "grid" inside initializeAsync, "index" inside
\* updateSpatialIndexIncremental, "done" when its promise is resolved), the
\* loop variable i, the local validatedGrid, whether the index update follows
\* (only for a chunk the call created) and the chunk it resolved with.
NewCall(positionHex, chunk, r, thenIndex) ==
  [ positionHex   |-> positionHex,
    chunk         |-> chunk,
    rings         |-> r,
    pc            |-> "grid",
    i             |-> 0,
    validatedGrid |-> << >>,
    thenIndex     |-> thenIndex,
    result        |-> NoChunk ]

CallDone(call) ==
  [call EXCEPT !.pc = "done", !.i = 0, !.validatedGrid = << >>, !.result = call.chunk]

CallResult(o, idx, call) == [objs |-> o, index |-> idx, call |-> call]

\* updateSpatialIndexIncremental from batch i on, up to its next
\* requestAnimationFrame or its end.
RunIndex(o, idx, call) ==
  LET chunkGrid == o[call.chunk].grid
      totalTiles == Len(chunkGrid)
      batch == SubSeq(chunkGrid, call.i + 1, Min2(call.i + INDEX_BATCH_SIZE, totalTiles))
      idx1 == IndexBatch(idx, batch, call.positionHex)
  IN IF call.i >= totalTiles THEN CallResult(o, idx, CallDone(call))
     ELSE IF call.i + INDEX_BATCH_SIZE < totalTiles
       THEN CallResult(o, idx1, [call EXCEPT !.i = call.i + INDEX_BATCH_SIZE])
       ELSE CallResult(o, idx1, CallDone(call))

\* Chunk.initializeAsync from batch i on, up to its next
\* requestAnimationFrame; at its end the grid, the neighbors and the
\* initialized flag are set and createChunk goes on to the index update or
\* returns.
RunInit(o, idx, call) ==
  LET hexGrid == generateHexGridOnce(call.rings, call.positionHex.q, call.positionHex.r)
      totalTiles == Len(hexGrid)
      batch == SubSeq(hexGrid, call.i + 1, Min2(call.i + INIT_BATCH_SIZE, totalTiles))
      validatedGrid == call.validatedGrid
                         \o ValidatedBatch(batch, call.positionHex, call.rings)
  IN IF call.i + INIT_BATCH_SIZE < totalTiles
       THEN CallResult(o, idx, [call EXCEPT !.validatedGrid = validatedGrid,
                                            !.i = call.i + INIT_BATCH_SIZE])
       ELSE
         LET o1 == [o EXCEPT ![call.chunk].grid = validatedGrid,
                             ![call.chunk].neighbors =
                                calculateChunkNeighbors(o[call.chunk].positionHex, call.rings),
                             ![call.chunk].initialized = TRUE]
         IN IF call.thenIndex
              THEN RunIndex(o1, idx, [call EXCEPT !.pc = "index", !.i = 0,
                                                  !.validatedGrid = << >>])
              ELSE CallResult(o1, idx, CallDone(call))

\* createChunk(positionHex, rings, hexSize) up to its first
\* requestAnimationFrame.
CreateChunk(positionHex, r) ==
  LET key == getChunkKey(positionHex)
      existing == getChunk(chunks, positionHex)
  IN
  /\ Len(calls) < MaxCalls
  /\ IF existing # NoChunk /\ isInitialized(objs, existing) THEN
       /\ calls' = Append(calls, CallDone(NewCall(positionHex, existing, r, FALSE)))
       /\ ret' = Ret("createChunk", "existing", NoPromise, existing, FALSE)
       /\ UNCHANGED << chunks, objs, spatialIndex >>
     ELSE IF existing # NoChunk THEN
       LET run == RunInit(objs, spatialIndex, NewCall(positionHex, existing, r, FALSE)) IN
       /\ calls' = Append(calls, run.call)
       /\ objs' = run.objs
       /\ spatialIndex' = run.index
       /\ ret' = Ret("createChunk", "waiting", NoPromise, NoChunk, FALSE)
       /\ UNCHANGED chunks
     ELSE
       LET chunk == Len(objs) + 1
           run == RunInit(Append(objs, NewChunk(positionHex)), spatialIndex,
                          NewCall(positionHex, chunk, r, TRUE))
       IN
       /\ Len(objs) < MaxChunks
       /\ chunks' = MapSet(chunks, key, chunk)
       /\ calls' = Append(calls, run.call)
       /\ objs' = run.objs
       /\ spatialIndex' = run.index
       /\ ret' = Ret("createChunk", "created", NoPromise, NoChunk, FALSE)
  /\ UNCHANGED << tasks, promises, frameBudget, issued, log, currentRings, probe, render,
                frame, preConstraints, frames,
                  baseRings >>

\* A suspended createChunk call goes on after its requestAnimationFrame.
ResumeCreateChunk(k) ==
  /\ calls[k].pc # "done"
  /\ LET run == IF calls[k].pc = "grid"
                  THEN RunInit(objs, spatialIndex, calls[k])
                  ELSE RunIndex(objs, spatialIndex, calls[k])
     IN /\ calls' = [calls EXCEPT ![k] = run.call]
        /\ objs' = run.objs
        /\ spatialIndex' = run.index
  /\ ret' = Ret("createChunk", "resumed", NoPromise, NoChunk, FALSE)
  /\ UNCHANGED << chunks, tasks, promises, frameBudget, issued, log, currentRings, probe,
                render, frame, preConstraints, frames,
                  baseRings >>

\* ------------------------------------------------------------ tile lookup
\* WorldMap.getChunkForTileFast(tileHex, rings): the spatial index after the
\* call, the result, and the return statement taken.
getChunkForTileFast(index, ch, tileHex, rings) ==
  LET tileKey == tileKeyOf(tileHex) IN
  IF tileKey \notin DOMAIN index
    THEN [index |-> index, result |-> None, branch |-> "absent"]
  ELSE
    LET chunkPos == index[tileKey] IN
    IF getChunk(ch, chunkPos) = NoChunk
      THEN [index  |-> [key \in DOMAIN index \ {tileKey} |-> index[key]],
            result |-> None, branch |-> "removed"]
    ELSE IF distance(tileHex.q, tileHex.r, chunkPos.q, chunkPos.r) <= rings
      THEN [index |-> index, result |-> Some(chunkPos), branch |-> "found"]
      ELSE [index |-> index, result |-> None, branch |-> "outside"]

\* WorldMap.getAllChunks()
getAllChunks(ch) == MapValues(ch)

\* The loop of getChunkForTile over existingChunks from position k on;
\* minDistance is None for Number.POSITIVE_INFINITY.
RECURSIVE ScanChunks(_, _, _, _, _, _, _)
ScanChunks(o, existingChunks, k, tileHex, rings, closestChunk, minDistance) ==
  IF k > Len(existingChunks) THEN closestChunk
  ELSE
    LET chunkPos == o[existingChunks[k]].positionHex
        d == distance(tileHex.q, tileHex.r, chunkPos.q, chunkPos.r)
    IN IF d = 0 THEN Some(chunkPos)
       ELSE IF d <= rings /\ (minDistance = None \/ d < minDistance[1])
         THEN ScanChunks(o, existingChunks, k + 1, tileHex, rings, Some(chunkPos), Some(d))
         ELSE ScanChunks(o, existingChunks, k + 1, tileHex, rings, closestChunk, minDistance)

\* getChunkForTile(tileHex, rings, existingChunks, worldMap?): withMap tells
\* whether a WorldMap was passed.
getChunkForTile(index, ch, o, tileHex, rings, existingChunks, withMap) ==
  LET fast == IF withMap THEN getChunkForTileFast(index, ch, tileHex, rings)
              ELSE [index |-> index, result |-> None, branch |-> "nomap"]
  IN IF fast.result # None
       THEN [index |-> fast.index, result |-> fast.result, branch |-> "index"]
     ELSE IF Len(existingChunks) = 0
       THEN [index |-> fast.index, result |-> None, branch |-> "empty"]
       ELSE [index  |-> fast.index,
             result |-> ScanChunks(o, existingChunks, 1, tileHex, rings, None, None),
             branch |-> "scan"]

GetChunkForTileFast(tileHex, rings) ==
  LET r == getChunkForTileFast(spatialIndex, chunks, tileHex, rings) IN
  /\ spatialIndex' = r.index
  /\ ret' = RetHex("getChunkForTileFast", r.branch, r.result)
  /\ UNCHANGED << chunks, objs, tasks, promises, frameBudget, issued, log, aux >>

\* The caller passes worldMap.getAllChunks() as existingChunks.
GetChunkForTile(tileHex, rings, withMap) ==
  LET r == getChunkForTile(spatialIndex, chunks, objs, tileHex, rings,
                           getAllChunks(chunks), withMap) IN
  /\ spatialIndex' = r.index
  /\ ret' = RetHex("getChunkForTile", r.branch, r.result)
  /\ UNCHANGED << chunks, objs, tasks, promises, frameBudget, issued, log, aux >>

\* ------------------------------------------------ CanvasManager.renderGrid
\* Convert WASM tile type number to TileType ("null" for no tile type).
tileTypeFromNumber(tileNum) ==
  CASE tileNum = 0 -> "grass"
    [] tileNum = 1 -> "building"
    [] tileNum = 2 -> "road"
    [] tileNum = 3 -> "forest"
    [] tileNum = 4 -> "water"
    [] OTHER -> "null"

\* What wasmModule.get_tile_at answers for a hex no layout covers.
NoTileNum == 0 - 1

\* The layouts generate_layout may produce: the pre-constraints it works from
\* are drawn with Math.random, so one call is a choice among them.  Layout s
\* gives hex (q, r) the tile number (q + 2r + s) mod 5, so any two layouts
\* differ on every hex.
LayoutSeeds == 0..(MaxLayouts - 1)

\* wasmModule.get_tile_at(q, r) under the layout l the module holds.
get_tile_at(l, q, r) ==
  IF l = None THEN NoTileNum ELSE (q + 2 * r + l[1]) % 5

\* Chunk.setEnabled(enabled): the chunk and every tile of its grid.
setEnabled(o, chunk, enabled) ==
  LET grid == o[chunk].grid IN
  [o EXCEPT ![chunk].enabled = enabled,
            ![chunk].grid = [k \in 1..Len(grid) |-> [grid[k] EXCEPT !.enabled = enabled]]]

\* Chunk.setTilesGenerated(generated)
setTilesGenerated(o, chunk, generated) ==
  [o EXCEPT ![chunk].tilesGenerated = generated]

\* Chunk.hasAllTilesGenerated(): true for an empty grid.
hasAllTilesGenerated(o, chunk) ==
  \A k \in 1..Len(o[chunk].grid) : o[chunk].grid[k].tileType # "null"

\* WorldMap.getEnabledChunks()
getEnabledChunks(ch, o) == SelectSeq(getAllChunks(ch), LAMBDA c : o[c].enabled)

\* setTilesGenerated(false) on every chunk of the list.
MarkForRegeneration(o, list) ==
  [c \in 1..Len(o) |->
     IF c \in Range(list) THEN [o[c] EXCEPT !.tilesGenerated = FALSE] ELSE o[c]]

\* A caching step that marks the chunks generated without storing any kind.
CacheTileTypes_FlagOnly(o, list, l) ==
  [c \in 1..Len(o) |->
     IF c \in Range(list) THEN [o[c] EXCEPT !.tilesGenerated = TRUE] ELSE o[c]]

\* The caching loop over chunksToUpdate: every tile whose number converts to
\* a tile type gets it (the hexes of a grid are distinct, so setTileType
\* finds the tile itself), and the chunk is marked generated.
CacheTileTypes(o, list, l) ==
  [c \in 1..Len(o) |->
     IF c \in Range(list)
       THEN [o[c] EXCEPT
               !.grid = [k \in 1..Len(o[c].grid) |->
                  LET tile == o[c].grid[k]
                      tileType == tileTypeFromNumber(get_tile_at(l, tile.hex.q, tile.hex.r))
                  IN IF tileType # "null" THEN [tile EXCEPT !.tileType = tileType]
                     ELSE tile],
               !.tilesGenerated = TRUE]
       ELSE o[c]]

\* The instance loop over the chunks enabled now: an enabled tile without a
\* cached tile type gets the one the module holds for its hex.
CollectTiles(o, ch, l) ==
  [c \in 1..Len(o) |->
     IF c \in Range(getEnabledChunks(ch, o))
       THEN [o[c] EXCEPT
               !.grid = [k \in 1..Len(o[c].grid) |->
                  LET tile == o[c].grid[k]
                      tileType == tileTypeFromNumber(get_tile_at(l, tile.hex.q, tile.hex.r))
                  IN IF tile.enabled /\ tile.tileType = "null" /\ tileType # "null"
                       THEN [tile EXCEPT !.tileType = tileType]
                       ELSE tile]]
       ELSE o[c]]

\* A renderGridAsync call waiting for generatePreConstraintsFn: its
\* parameter and locals; allChunks notes the chunks the WorldMap held when
\* the call was made.
NewPass(forceRecompute, allChunks, enabledChunks, needGeneration, originalRings, requiredRings) ==
  [ forceRecompute          |-> forceRecompute,
    allChunks               |-> allChunks,
    enabledChunks           |-> enabledChunks,
    chunksNeedingGeneration |-> needGeneration,
    originalRings           |-> originalRings,
    requiredRings           |-> requiredRings,
    pc                      |-> "preConstraints" ]

\* requiredRings: the largest distance from (0, 0) of a tile of an enabled
\* chunk, and at least this.currentRings.
RequiredRings(o, enabledChunks, rings) ==
  LET far == UNION { { distance(0, 0, o[enabledChunks[i]].grid[k].hex.q,
                                o[enabledChunks[i]].grid[k].hex.r) :
                         k \in 1..Len(o[enabledChunks[i]].grid) } :
                     i \in 1..Len(enabledChunks) }
            \cup { rings }
  IN CHOOSE d \in far : \A e \in far : e <= d

PassDone(pass) == [pass EXCEPT !.pc = "done"]

\* renderGridAsync up to its await of generatePreConstraintsFn, or to its
\* end when no chunk needs generation: the chunk objects after it, the call
\* as it stands, and the branch taken.
StartPass(o, ch, l, originalRings, forceRecompute) ==
  LET enabledChunks == getEnabledChunks(ch, o)
      o1 == IF forceRecompute THEN MarkForRegeneration(o, enabledChunks) ELSE o
      chunksNeedingGeneration ==
        SelectSeq(enabledChunks,
                  LAMBDA c : ~ (o1[c].tilesGenerated /\ hasAllTilesGenerated(o1, c)))
      pass == NewPass(forceRecompute, getAllChunks(ch), enabledChunks,
                      chunksNeedingGeneration, originalRings,
                      RequiredRings(o1, enabledChunks, originalRings))
  IN IF Len(chunksNeedingGeneration) > 0
       THEN [objs |-> o1, pass |-> pass, branch |-> "generate"]
       ELSE [objs |-> CollectTiles(o1, ch, l), pass |-> PassDone(pass), branch |-> "skip"]

\* renderGrid(constraints, forceRecompute)
RenderGrid(forceRecompute) ==
  LET start == StartPass(objs, chunks, layout, currentRings, forceRecompute) IN
  /\ Len(passes) < MaxPasses
  /\ passes' = Append(passes, start.pass)
  /\ objs' = start.objs
  /\ ret' = Ret("renderGrid", start.branch, NoPromise, NoChunk, FALSE)
  /\ UNCHANGED << chunks, spatialIndex, tasks, promises, frameBudget, issued, log,
                  currentRings, calls, probe, layout, frame, preConstraints, frames,
                  baseRings >>

\* renderGridAsync from the return of generatePreConstraintsFn to its end:
\* currentRings restored, generate_layout, the caching loop, the instances.
ResumeRenderGrid(k) ==
  /\ passes[k].pc = "preConstraints"
  /\ \E s \in LayoutSeeds :
       LET pass == passes[k]
           chunksToUpdate == IF pass.forceRecompute THEN pass.enabledChunks
                             ELSE pass.chunksNeedingGeneration
           o1 == CacheTileTypes(objs, chunksToUpdate, Some(s))
       IN /\ layout' = Some(s)
          /\ objs' = CollectTiles(o1, chunks, Some(s))
          /\ currentRings' = pass.originalRings
          /\ passes' = [passes EXCEPT ![k] = PassDone(pass)]
  /\ ret' = Ret("renderGrid", IF passes[k].forceRecompute THEN "recomputed" ELSE "cached",
              NoPromise, NoChunk, FALSE)
  /\ UNCHANGED << chunks, spatialIndex, tasks, promises, frameBudget, issued, log,
                  calls, probe, frame, preConstraints, frames,
                  baseRings >>

\* A proximity tick disables or re-enables the chunk at positionHex.
SetChunkEnabled(positionHex, enabled) ==
  LET chunk == getChunk(chunks, positionHex) IN
  /\ chunk # NoChunk
  /\ objs[chunk].enabled # enabled
  /\ objs' = setEnabled(objs, chunk, enabled)
  /\ ret' = Ret("setEnabled", "done", NoPromise, chunk, FALSE)
  /\ UNCHANGED << chunks, spatialIndex, tasks, promises, frameBudget, issued, log, aux >>

\* ---------------------------------------------------- floating origin
\* A point of the ground plane, in the basis of the pointy-top layout:
\* Point(u, v) is x = hexSize * sqrt(3) * (u + v/2) / PosScale,
\*                z = hexSize * (3/2) * v / PosScale.
Point(u, v) == [u |-> u, v |-> v]

\* HEX_UTILS.hexToWorld(q, r, hexSize)
hexToWorld(q, r) == Point(q * PosScale, r * PosScale)

\* The point with the opposite x and the same z.
NegateX(p) == Point(0 - p.u - p.v, p.v)

\* Vector3.subtract / Vector3.add on the ground plane.
Subtract(a, b) == Point(a.u - b.u, a.v - b.v)
Add(a, b) == Point(a.u + b.u, a.v + b.v)

\* Math.round(n / PosScale): the nearest integer, halves rounded up.
Round(n) == (2 * n + PosScale) \div (2 * PosScale)

\* HEX_UTILS.worldToHex(x, z, hexSize): the fractional axial coordinates of
\* Point(u, v) are u / PosScale and v / PosScale.
worldToHex(p) ==
  LET fracQ == p.u
      fracR == p.v
      fracS == 0 - fracQ - fracR
      q == Round(fracQ)
      r == Round(fracR)
      s == Round(fracS)
      qDiff == Abs(q * PosScale - fracQ)
      rDiff == Abs(r * PosScale - fracR)
      sDiff == Abs(s * PosScale - fracS)
  IN IF qDiff > rDiff /\ qDiff > sDiff THEN [q |-> 0 - r - s, r |-> r]
     ELSE IF rDiff > sDiff THEN [q |-> q, r |-> 0 - q - s]
     ELSE [q |-> q, r |-> r]

\* Vector3.Distance(a, b) > floatingOriginThreshold, for two points of the
\* ground plane at the same height: the squared distance of Point(u, v) from
\* the origin is 3 * hexSize^2 * (u^2 + u*v + v^2) / PosScale^2.
BeyondThreshold(a, b) ==
  LET d == Subtract(a, b) IN
  modelDepth * modelDepth * (d.u * d.u + d.u * d.v + d.v * d.v)
    > 3 * floatingOriginThreshold * floatingOriginThreshold * PosScale * PosScale

\* Player.getCurrentTileHex(hexSize, worldHexOffset)
getCurrentTileHex(position, offset) ==
  LET localHex == worldToHex(NegateX(position)) IN
  [q |-> localHex.q + offset.q, r |-> localHex.r + offset.r]

\* new CanvasManager(): the floating origin at zero, no hex offset; the
\* avatar stands on the origin.
FrameInit ==
  /\ avatarPosition = Point(0, 0)
  /\ currentFloatingOrigin = Point(0, 0)
  /\ worldHexOffset = [q |-> 0, r |-> 0]
  /\ previousTileHex = None
  /\ currentChunkHex = None
  /\ distanceCheckCache = [lastChunkHex |-> None, maxDistance |-> 0, lastChunkCount |-> 0]

\* CanvasManager.updateFloatingOrigin().  getAbsolutePosition() hands out the
\* mesh's cached absolute position, which shifting mesh.position does not
\* update, so avatarPosition.clone() at the end is the position before the
\* shift.  The avatar mesh is one of scene.meshes.
UpdateFloatingOrigin ==
  /\ IF BeyondThreshold(avatarPosition, currentFloatingOrigin)
       THEN LET offset == Subtract(avatarPosition, currentFloatingOrigin)
                hexOffset == worldToHex(offset)
            IN /\ worldHexOffset' = [q |-> worldHexOffset.q + hexOffset.q,
                                     r |-> worldHexOffset.r + hexOffset.r]
               /\ avatarPosition' = Subtract(avatarPosition, offset)
               /\ currentFloatingOrigin' = avatarPosition
               /\ ret' = Ret("updateFloatingOrigin", "shifted", NoPromise, NoChunk, FALSE)
       ELSE /\ UNCHANGED origin
            /\ ret' = Ret("updateFloatingOrigin", "kept", NoPromise, NoChunk, FALSE)
  /\ UNCHANGED << chunks, objs, spatialIndex, tasks, promises, frameBudget, issued, log,
                  currentRings, calls, probe, render, proximity, preConstraints, frames,
                  baseRings >>

\* player.update(): the avatar moves by the hex delta d.
MoveAvatar(d) ==
  LET position == Add(avatarPosition, hexToWorld(d.q, d.r)) IN
  /\ Abs(position.u) <= MaxLocal * PosScale
  /\ Abs(position.v) <= MaxLocal * PosScale
  /\ Abs(worldHexOffset.q) <= MaxOffset
  /\ Abs(worldHexOffset.r) <= MaxOffset
  /\ avatarPosition' = position
  /\ ret' = Ret("update", "moved", NoPromise, NoChunk, FALSE)
  /\ UNCHANGED << chunks, objs, spatialIndex, tasks, promises, frameBudget, issued, log,
                  currentRings, calls, probe, render, currentFloatingOrigin,
                  worldHexOffset, proximity, preConstraints, frames,
                  baseRings >>

\* CanvasManager.setCurrentRings(rings): baseRings after the call, base being
\* baseRings before it (currentRings becomes rings).
setCurrentRings(rings, base) ==
  LET isReasonableSize == rings <= 20
      isInitialSet == base = 1
      isNotHugeJump == rings <= base * 2
  IN IF isReasonableSize /\ (isInitialSet \/ isNotHugeJump) THEN rings ELSE base

\* ------------------------------------------------------ proximity check
\* wasmModule.calculate_chunk_radius(rings): the chunk radius in hexes.
calculate_chunk_radius(rings) == rings

\* wasmModule.disable_distant_chunks(current chunk, all chunks, max distance):
\* the enabled chunks farther than maxDistance from the current chunk are to
\* be disabled, the disabled ones within maxDistance are to be enabled.
disable_distant_chunks(current, o, allChunks, maxDistance) ==
  LET far(c) == distance(o[c].positionHex.q, o[c].positionHex.r,
                         current.q, current.r) > maxDistance
      positions(list) == [i \in 1..Len(list) |-> o[list[i]].positionHex]
  IN [toDisable |-> positions(SelectSeq(allChunks, LAMBDA c : o[c].enabled /\ far(c))),
      toEnable  |-> positions(SelectSeq(allChunks, LAMBDA c : ~ o[c].enabled /\ ~ far(c)))]

\* A loop that disables chunks and never re-enables one.
SetEnabledEach_DisableOnly(o, ch, list, enabled) ==
  [c \in 1..Len(o) |->
     IF /\ \E i \in 1..Len(list) : getChunk(ch, list[i]) = c
        /\ o[c].enabled
        /\ ~ enabled
       THEN setEnabled(o, c, FALSE)[c]
       ELSE o[c]]

\* The loop over a list of chunk positions: a chunk found in the WorldMap
\* whose enabled flag is not yet the wanted one gets setEnabled(enabled).
SetEnabledEach(o, ch, list, enabled) ==
  [c \in 1..Len(o) |->
     IF /\ \E i \in 1..Len(list) : getChunk(ch, list[i]) = c
        /\ o[c].enabled # enabled
       THEN setEnabled(o, c, enabled)[c]
       ELSE o[c]]

\* How many chunks of the list the loop changes.
CountChanged(o, ch, list, enabled) ==
  Cardinality({ c \in 1..Len(o) :
                  /\ \E i \in 1..Len(list) : getChunk(ch, list[i]) = c
                  /\ o[c].enabled # enabled })

\* disableDistantChunks(currentChunkHex, worldMap, rings, wasmModule): the
\* chunk objects and the cache after it, and its result.
disableDistantChunks(current, ch, o, rings, cache) ==
  LET maxDistance == 4 * calculate_chunk_radius(rings)
      allChunks == getAllChunks(ch)
      currentChunkCount == Len(allChunks)
      chunkChanged == cache.lastChunkHex = None \/ cache.lastChunkHex # Some(current)
      distanceThresholdChanged == cache.maxDistance # maxDistance
      chunkCountChanged == cache.lastChunkCount # currentChunkCount
      result == disable_distant_chunks(current, o, allChunks, maxDistance)
      o1 == SetEnabledEach(o, ch, result.toDisable, FALSE)
      o2 == SetEnabledEach(o1, ch, result.toEnable, TRUE)
      disabledCount == CountChanged(o, ch, result.toDisable, FALSE)
      reEnabledCount == CountChanged(o1, ch, result.toEnable, TRUE)
  IN IF ~ chunkChanged /\ ~ distanceThresholdChanged /\ ~ chunkCountChanged
       THEN [objs |-> o, cache |-> cache, anyChanges |-> FALSE]
       ELSE [objs  |-> o2,
             cache |-> [lastChunkHex |-> Some(current), maxDistance |-> maxDistance,
                        lastChunkCount |-> currentChunkCount],
             anyChanges |-> disabledCount > 0 \/ reEnabledCount > 0]

\* The squared distance of two hex centers in the plane, in units of
\* 3 * hexSize^2.
SquaredWorldDistance(a, b) ==
  LET dq == a.q - b.q
      dr == a.r - b.r
  IN dq * dq + dq * dr + dr * dr

\* wasmModule.find_nearest_neighbor_chunk(current chunk, current tile, rings,
\* existing chunks): of the six packing neighbors of the current chunk, the
\* one whose center is nearest to the tile (the first of them on a tie).
find_nearest_neighbor_chunk(current, tile, rings) ==
  LET neighbors == calculateChunkNeighbors(current, rings)
      best == CHOOSE i \in 1..Len(neighbors) :
                \A j \in 1..Len(neighbors) :
                  \/ SquaredWorldDistance(neighbors[i], tile)
                       < SquaredWorldDistance(neighbors[j], tile)
                  \/ /\ SquaredWorldDistance(neighbors[i], tile)
                          = SquaredWorldDistance(neighbors[j], tile)
                     /\ i <= j
  IN neighbors[best]

\* A neighbor that is always taken to be within the preload distance.
BeyondPreload_Never(neighbor, tile, rings) == FALSE

\* nearestNeighbor.distance > thresholdWorld, thresholdWorld being
\* chunkRadius * 2.5 * hexSize * 1.5: squared, 3 * hexSize^2 * d2 against
\* (3.75 * chunkRadius * hexSize)^2.
BeyondPreload(neighbor, tile, rings) ==
  16 * 3 * SquaredWorldDistance(neighbor, tile)
    > 225 * calculate_chunk_radius(rings) * calculate_chunk_radius(rings)

\* checkAndUpdateTile(currentTileHex, worldMap, canvasManager): the spatial
\* index after the lookup, the two remembered values, and the result.
checkAndUpdateTile(tile, rings) ==
  LET tileChanged == previousTileHex = None \/ previousTileHex # Some(tile)
      lookup == getChunkForTile(spatialIndex, chunks, objs, tile, rings,
                                getAllChunks(chunks), TRUE)
      chunkForTile == lookup.result
      chunkChanged == /\ chunkForTile # None
                      /\ (currentChunkHex = None \/ currentChunkHex # chunkForTile)
  IN IF ~ tileChanged
       THEN [index |-> spatialIndex, previousTileHex |-> previousTileHex,
             currentChunkHex |-> currentChunkHex,
             tileChanged |-> FALSE, chunkChanged |-> FALSE]
       ELSE [index |-> lookup.index, previousTileHex |-> Some(tile),
             currentChunkHex |-> IF chunkChanged THEN chunkForTile ELSE currentChunkHex,
             tileChanged |-> TRUE, chunkChanged |-> chunkChanged]

\* ensureNearestNeighborChunkIsVisible, once the nearest neighbor and its
\* chunk are known: whether a task is enqueued or the chunk is re-enabled.
EnsureVisible(o, tile, rings, neighbor, existingChunk) ==
  LET near == ~ BeyondPreload(neighbor, tile, rings)
      isFullyInitialized == existingChunk # NoChunk /\ isInitialized(o, existingChunk)
      queue == near /\ ~ isFullyInitialized /\ ~ hasTask(neighbor)
  IN [existingChunk |-> existingChunk,
      queue |-> queue,
      enable |-> near /\ ~ queue /\ existingChunk # NoChunk /\ ~ o[existingChunk].enabled]

\* The chunks and chunk objects after ensureNearestNeighborChunkIsVisible.
EnsureResult(ch, o, neighbor, ensured, placed) ==
  [neighbor |-> neighbor, existingChunk |-> ensured.existingChunk,
   queue |-> ensured.queue, enable |-> ensured.enable,
   chunks |-> IF ensured.queue THEN placed.chunks ELSE ch,
   objs |-> IF ensured.queue THEN placed.objs
            ELSE IF ensured.enable THEN setEnabled(o, ensured.existingChunk, TRUE)
            ELSE o]

\* ensureNearestNeighborChunkIsVisible(currentChunkHex, currentTileHex, rings,
\* ...), neighbor being the nearest neighbor the wasm module found.
ensureNearestNeighborChunkIsVisible(ch, o, tile, rings, neighbor) ==
  EnsureResult(ch, o, neighbor,
               EnsureVisible(o, tile, rings, neighbor, getChunk(ch, neighbor)),
               EnsurePlaceholder(ch, o, getChunk(ch, neighbor), neighbor))

\* The part of the tick in which distant chunks are disabled: the chunk
\* objects and the cache after it.
DisableWhenChunkChanged(check, rings) ==
  IF check.chunkChanged /\ check.currentChunkHex # None
    THEN disableDistantChunks(check.currentChunkHex[1], chunks, objs, rings,
                              distanceCheckCache)
    ELSE [objs |-> objs, cache |-> distanceCheckCache, anyChanges |-> FALSE]

\* The state after the tick, given the results of its three parts; start is
\* the render pass renderGrid() would begin.
ProximityApply(tile, rings, check, distant, ensured, start) ==
  LET needsRender == ensured.queue \/ ensured.enable IN
  /\ ensured.queue => Len(promises) < MaxTasks
  /\ (ensured.queue /\ ensured.existingChunk = NoChunk) => Len(objs) < MaxTickChunks
  /\ (needsRender \/ distant.anyChanges) => Len(passes) < MaxTickPasses
  /\ spatialIndex' = check.index
  /\ previousTileHex' = check.previousTileHex
  /\ currentChunkHex' = check.currentChunkHex
  /\ distanceCheckCache' = distant.cache
  /\ chunks' = ensured.chunks
  /\ IF ensured.queue
       THEN /\ promises' = Append(promises, NewPromise)
            /\ log' = Append(log, << >>)
            /\ issued' = Append(issued, ensured.neighbor)
            /\ tasks' = MapSet(tasks, getTaskKey(ensured.neighbor),
                               NewTask(ensured.neighbor, rings, 100, Len(promises) + 1))
       ELSE UNCHANGED << promises, log, issued, tasks >>
  /\ IF needsRender \/ distant.anyChanges
       THEN /\ objs' = start.objs
            /\ passes' = Append(passes, start.pass)
       ELSE /\ objs' = ensured.objs
            /\ UNCHANGED passes
  /\ ret' = [Ret("proximityCheck",
                 IF ~ check.tileChanged THEN "same tile"
                 ELSE IF ensured.queue THEN "enqueued"
                 ELSE IF ensured.enable THEN "enabled"
                 ELSE "checked",
                 IF ensured.queue THEN Len(promises) + 1 ELSE NoPromise, NoChunk,
                 check.chunkChanged)
               EXCEPT !.hex = Some(tile)]
  /\ UNCHANGED << frameBudget, currentRings, calls, probe, layout, origin, preConstraints, frames,
                  baseRings >>

ProximityRender(tile, rings, check, distant, ensured) ==
  ProximityApply(tile, rings, check, distant, ensured,
                 StartPass(ensured.objs, ensured.chunks, layout, currentRings, FALSE))

\* if (tileChanged && currentChunkHex) ensureNearestNeighborChunkIsVisible(...)
ProximityEnsure(tile, rings, check, distant) ==
  ProximityRender(tile, rings, check, distant,
    IF check.tileChanged /\ check.currentChunkHex # None
      THEN ensureNearestNeighborChunkIsVisible(
             chunks, distant.objs, tile, rings,
             find_nearest_neighbor_chunk(check.currentChunkHex[1], tile, rings))
      ELSE [neighbor |-> tile, existingChunk |-> NoChunk, queue |-> FALSE,
            enable |-> FALSE, chunks |-> chunks, objs |-> distant.objs])

ProximityDisable(tile, rings, check) ==
  ProximityEnsure(tile, rings, check, DisableWhenChunkChanged(check, rings))

\* The proximity check of onBeforeRender for the avatar's tile: the current
\* chunk is resolved, distant chunks are disabled when it changed, the
\* nearest neighbor is enqueued or re-enabled when the tile changed, and
\* renderGrid() is called when anything changed.  All calls pass
\* getBaseRings(), which is the session radius.
ProximityCheck(tile) ==
  ProximityDisable(tile, baseRings, checkAndUpdateTile(tile, baseRings))

\* ------------------------------------------- constraintsToPreConstraints
\* HEX_UTILS.getNeighbors(q, r)
getNeighbors(q, r) ==
  << [q |-> q + 1, r |-> r], [q |-> q - 1, r |-> r], [q |-> q, r |-> r + 1],
     [q |-> q, r |-> r - 1], [q |-> q + 1, r |-> r - 1], [q |-> q - 1, r |-> r + 1] >>

\* HEX_UTILS.cubeDistance(a, b)
cubeDistance(a, b) ==
  LET dq == Abs(a.q - b.q)
      dr == Abs(a.r - b.r)
      ds == Abs(a.s - b.s)
  IN IF dq >= dr /\ dq >= ds THEN dq ELSE IF dr >= ds THEN dr ELSE ds

\* hexAStar: the heuristic of a hex, and a search node.
heuristic(q, r, goal) == cubeDistance(axialToCube(q, r), axialToCube(goal.q, goal.r))

AStarNode(q, r, g, h, parent) ==
  [q |-> q, r |-> r, g |-> g, h |-> h, f |-> g + h, parent |-> parent]

\* hexAStar: the entry of the open set with the lowest f, the first of them
\* in the order of the Map.
LowestF_Last(openSet) == Len(openSet)
LowestF(openSet) ==
  CHOOSE i \in 1..Len(openSet) :
    \A j \in 1..Len(openSet) :
      \/ openSet[i].value.f < openSet[j].value.f
      \/ openSet[i].value.f = openSet[j].value.f /\ i <= j

\* hexAStar: the path from the start to the node, along the parents.
RECURSIVE ReconstructPath(_)
ReconstructPath(node) ==
  IF node.parent = None
    THEN << [q |-> node.q, r |-> node.r] >>
    ELSE Append(ReconstructPath(node.parent[1]), [q |-> node.q, r |-> node.r])

\* hexAStar: the open set after the neighbors k..6 of the current node have
\* been looked at; isValid is the set of hexes the search may enter.
RECURSIVE ExploreNeighbors(_, _, _, _, _, _)
ExploreNeighbors(openSet, closedSet, current, goal, isValid, k) ==
  IF k > 6 THEN openSet
  ELSE
    LET neighbor == getNeighbors(current.q, current.r)[k]
        neighborKey == tileKeyOf(neighbor)
        tentativeG == current.g + 1
        skipped == neighborKey \in closedSet \/ neighbor \notin isValid
        better == \/ ~ MapHas(openSet, neighborKey)
                  \/ tentativeG < MapGet(openSet, neighborKey).g
        newNode == AStarNode(neighbor.q, neighbor.r, tentativeG,
                             heuristic(neighbor.q, neighbor.r, goal), Some(current))
    IN ExploreNeighbors(IF ~ skipped /\ better
                          THEN MapSet(openSet, neighborKey, newNode)
                          ELSE openSet,
                        closedSet, current, goal, isValid, k + 1)

\* hexAStar: the while loop; Some(path) or None for null.
RECURSIVE AStarLoop(_, _, _, _)
AStarLoop(openSet, closedSet, goal, isValid) ==
  IF Len(openSet) = 0 THEN None
  ELSE
    LET i == LowestF(openSet)
        current == openSet[i].value
        currentKey == openSet[i].key
        closed1 == closedSet \cup { currentKey }
    IN IF current.q = goal.q /\ current.r = goal.r
         THEN Some(ReconstructPath(current))
         ELSE AStarLoop(ExploreNeighbors(MapDelete(openSet, currentKey), closed1,
                                         current, goal, isValid, 1),
                        closed1, goal, isValid)

hexAStar(start, goal, isValid) ==
  AStarLoop(<< [key   |-> tileKeyOf(start),
                value |-> AStarNode(start.q, start.r, 0,
                                    heuristic(start.q, start.r, goal), None)] >>,
            {}, goal, isValid)

\* getValidTerrainHexes(hexGrid, voronoiConstraints): voronoi gives the kind
\* of every hex of the grid.
getValidTerrainHexes(hexGrid, voronoi) ==
  SelectSeq(hexGrid, LAMBDA hex : voronoi[hex] \in { "grass", "forest" })

\* isAdjacentToRoad(q, r, roadConstraints)
isAdjacentToRoad(q, r, roads) ==
  \E k \in 1..6 : getNeighbors(q, r)[k] \in Range(roads)

\* findNearestRoad(seed, roadNetwork): the first road at the least distance.
findNearestRoad(seed, roadNetwork) ==
  IF Len(roadNetwork) = 0 THEN None
  ELSE
    LET d(i) == distance(seed.q, seed.r, roadNetwork[i].q, roadNetwork[i].r)
        nearest == CHOOSE i \in 1..Len(roadNetwork) :
                     \A j \in 1..Len(roadNetwork) : d(i) < d(j) \/ (d(i) = d(j) /\ i <= j)
    IN Some(roadNetwork[nearest])

\* buildPathBetweenRoads(start, end, isValid): the path without its start.
buildPathBetweenRoads(start, end, isValid) ==
  LET path == hexAStar(start, end, isValid)
  IN IF path = None \/ Len(path[1]) = 0 THEN None ELSE Some(Tail(path[1]))

\* getAdjacentValidTerrain(roadNetwork, validTerrainHexes, occupiedHexes)
getAdjacentValidTerrain(roadNetwork, validTerrainHexes, occupiedHexes) ==
  LET all == [k \in 1..(6 * Len(roadNetwork)) |->
                getNeighbors(roadNetwork[((k - 1) \div 6) + 1].q,
                             roadNetwork[((k - 1) \div 6) + 1].r)[((k - 1) % 6) + 1]]
      kept == SelectSeq(all, LAMBDA n : /\ n \notin Range(roadNetwork)
                                        /\ tileKeyOf(n) \notin occupiedHexes
                                        /\ n \in Range(validTerrainHexes))
  IN SetOf(kept)

\* roadNetwork.push(hex); occupiedHexes.add(key)
AddRoad_Unmarked(net, hex) ==
  [net EXCEPT !.roadNetwork = Append(net.roadNetwork, hex)]

AddRoad(net, hex) ==
  [net EXCEPT !.roadNetwork = Append(net.roadNetwork, hex),
              !.occupiedHexes = net.occupiedHexes \cup { tileKeyOf(hex) }]

\* The hexes of a path that are not occupied yet are added in order.
RECURSIVE AddPath(_, _, _)
AddPath(net, path, k) ==
  IF k > Len(path) THEN net
  ELSE AddPath(IF tileKeyOf(path[k]) \notin net.occupiedHexes
                 THEN AddRoad(net, path[k]) ELSE net,
               path, k + 1)

\* Step 3b: the seeds i.. are connected to the network.  noPath collects the
\* seeds for which the path search returned null.
RECURSIVE ConnectSeeds(_, _, _, _)
ConnectSeeds(net, seedPoints, validTerrainSet, i) ==
  IF i > Len(seedPoints) THEN net
  ELSE
    LET seed == seedPoints[i]
        isValidForRoad == { hex \in validTerrainSet : tileKeyOf(hex) \notin net.occupiedHexes }
        nearestRoad == findNearestRoad(seed, net.roadNetwork)
        path == buildPathBetweenRoads(nearestRoad[1], seed, isValidForRoad)
        marked == IF nearestRoad # None /\ path = None
                    THEN [net EXCEPT !.noPath = net.noPath \cup { seed }]
                    ELSE net
        next == IF nearestRoad = None THEN AddRoad(net, seed)
                ELSE IF path # None /\ Len(path[1]) > 0 THEN AddPath(marked, path[1], 1)
                ELSE IF seed \in isValidForRoad THEN AddRoad(marked, seed)
                ELSE marked
    IN ConnectSeeds(next, seedPoints, validTerrainSet, i + 1)

\* Step 3c: roads next to the network are added until the target count is
\* reached; picks[n] says which hex the n-th shuffle brings to the front.
RECURSIVE ExpandNetwork(_, _, _, _, _)
ExpandNetwork(net, validTerrainHexes, targetRoadCount, picks, n) ==
  IF Len(net.roadNetwork) >= targetRoadCount THEN net
  ELSE
    LET adjacentHexes == getAdjacentValidTerrain(net.roadNetwork, validTerrainHexes,
                                                 net.occupiedHexes)
        pick == IF n <= Len(picks) THEN Min2(picks[n], Len(adjacentHexes)) ELSE 1
    IN IF Len(adjacentHexes) = 0 THEN net
       ELSE ExpandNetwork(AddRoad(net, adjacentHexes[pick]), validTerrainHexes,
                          targetRoadCount, picks, n + 1)

\* The array turned so that its k-th element comes first (one outcome of the
\* shuffle).
Rotate(s, k) ==
  IF Len(s) = 0 THEN s
  ELSE [i \in 1..Len(s) |-> s[((i + k - 2) % Len(s)) + 1]]

\* buildingRatio of constraints.buildingDensity, in percent
buildingRatio(buildingDensity) ==
  CASE buildingDensity = "sparse" -> 5
    [] buildingDensity = "dense" -> 15
    [] OTHER -> 10

\* The hexagon the layout is computed for: generateHexGrid(maxLayer, 0, 0).
LayoutGrid == generateHexGrid(LayoutLayer, 0, 0)

\* What generate_voronoi_regions returned: the kind of every hex of the grid,
\* for water on no hex, on one hex, on a row that cuts the grid in two, and
\* on every hex.
Biome(hex, water) ==
  IF hex \in water THEN "water" ELSE IF hex.q >= 3 THEN "forest" ELSE "grass"

WaterSets ==
  { {}, { [q |-> 0, r |-> 0] }, { h \in Range(LayoutGrid) : h.r = 0 }, Range(LayoutGrid) }

VoronoiMaps ==
  { [h \in Range(LayoutGrid) |-> Biome(h, water)] : water \in WaterSets }

\* constraints.buildingDensity
Densities == { "sparse", "medium", "dense" }

\* The hexes the shuffle of the seed candidates may bring to the front.
SeedCandidates ==
  { [q |-> 0, r |-> 1], [q |-> 1, r |-> 1], [q |-> 0, r |-> 0 - 1], [q |-> 0 - 3, r |-> 2] }

\* The seed points the shuffle and the slice can give: seedCount different
\* hexes of the available ones (all of them when there are fewer).
SeedChoices(availableForSeeds, seedCount) ==
  LET n == Min2(seedCount, Len(availableForSeeds))
      from == Range(availableForSeeds) \cap SeedCandidates
  IN { s \in [1..n -> from] : \A i, j \in 1..n : s[i] = s[j] => i = j }

\* Step 5: the hexes of the grid that are neither in a Voronoi region nor a
\* building nor a road become grass, and the pre-constraints are returned.
FillGrass(voronoi, seedPoints, hexGrid, net, buildingConstraints) ==
  LET finalOccupied == (DOMAIN voronoi) \cup Range(buildingConstraints)
                         \cup Range(net.roadNetwork)
  IN [ voronoiConstraints  |-> voronoi,
       buildingConstraints |-> buildingConstraints,
       roadConstraints     |-> net.roadNetwork,
       grassConstraints    |-> SelectSeq(hexGrid, LAMBDA hex : hex \notin finalOccupied),
       seedPoints          |-> seedPoints,
       noPath              |-> net.noPath ]

\* Step 4: buildings are placed on free valid terrain next to a road; turn is
\* the outcome of the shuffle.
PlaceBuildings_Unchecked(buildingDensity, voronoi, seedPoints, turn, hexGrid, validTerrainHexes, net) ==
  LET availableBuildingHexes ==
        Rotate(SelectSeq(validTerrainHexes,
                         LAMBDA hex : tileKeyOf(hex) \notin net.occupiedHexes),
               turn)
      buildingCount == (Len(availableBuildingHexes) * buildingRatio(buildingDensity)) \div 100
  IN FillGrass(voronoi, seedPoints, hexGrid, net,
               SubSeq(availableBuildingHexes, 1, buildingCount))
PlaceBuildings(buildingDensity, voronoi, seedPoints, turn, hexGrid, validTerrainHexes, net) ==
  LET availableBuildingHexes ==
        Rotate(SelectSeq(validTerrainHexes,
                         LAMBDA hex : /\ tileKeyOf(hex) \notin net.occupiedHexes
                                      /\ isAdjacentToRoad(hex.q, hex.r, net.roadNetwork)),
               turn)
      buildingCount == (Len(availableBuildingHexes) * buildingRatio(buildingDensity)) \div 100
  IN FillGrass(voronoi, seedPoints, hexGrid, net,
               SelectSeq(SubSeq(availableBuildingHexes, 1, buildingCount),
                         LAMBDA hex : isAdjacentToRoad(hex.q, hex.r, net.roadNetwork)))

\* Step 3: the road network grows from the seed points; water is occupied
\* from the start.
PlaceRoads(buildingDensity, voronoi, seedPoints, picks, turn, hexGrid, validTerrainHexes) ==
  LET occupied0 == { tileKeyOf(hex) : hex \in { h \in Range(hexGrid) : voronoi[h] = "water" } }
      targetRoadCount == (Len(validTerrainHexes) * 10) \div 100
      net0 == [roadNetwork |-> << >>, occupiedHexes |-> occupied0, noPath |-> {}]
      net1 == IF Len(seedPoints) > 0 THEN AddRoad(net0, seedPoints[1]) ELSE net0
      net2 == ConnectSeeds(net1, seedPoints, Range(validTerrainHexes), 2)
  IN PlaceBuildings(buildingDensity, voronoi, seedPoints, turn, hexGrid, validTerrainHexes,
                    ExpandNetwork(net2, validTerrainHexes, targetRoadCount, picks, 1))

\* constraintsToPreConstraints(constraints), given the Voronoi regions the
\* wasm module returned and the outcomes of the three shuffles.
constraintsToPreConstraints(buildingDensity, voronoi, seedPoints, picks, turn) ==
  PlaceRoads(buildingDensity, voronoi, seedPoints, picks, turn,
             LayoutGrid, getValidTerrainHexes(LayoutGrid, voronoi))

\* Math.max(1, Math.floor(targetRoadCount * 0.25))
seedCount(voronoi) ==
  LET targetRoadCount == (Len(getValidTerrainHexes(LayoutGrid, voronoi)) * 10) \div 100
      quarter == (targetRoadCount * 25) \div 100
  IN IF quarter > 1 THEN quarter ELSE 1

\* The valid terrain hexes that are not occupied (by water).
availableForSeeds(voronoi) ==
  SelectSeq(getValidTerrainHexes(LayoutGrid, voronoi),
            LAMBDA hex : voronoi[hex] # "water")

\* The generatePreConstraintsFn call of the render pass k returns: the run of
\* The ring count the pre-constraint generation hands to setCurrentRings:
\* the rings of the expanded constraints, which are the pass's requiredRings.
PreConstraintRings(pass) == pass.requiredRings

\* generatePreConstraintsFn(expandedConstraints, ...) for the pass k, with
\* the Voronoi regions the wasm module gives and the outcomes of the
\* shuffles: setCurrentRings(rings), then constraintsToPreConstraints.
GeneratePreConstraintsFor(k, buildingDensity, voronoi, seedPoints, picks, turn) ==
  /\ passes[k].pc = "preConstraints"
  /\ preConstraints = None
  /\ currentRings' = PreConstraintRings(passes[k])
  /\ baseRings' = setCurrentRings(PreConstraintRings(passes[k]), baseRings)
  /\ preConstraints' =
       Some([pass            |-> k,
             buildingDensity |-> buildingDensity,
             result          |-> constraintsToPreConstraints(buildingDensity, voronoi,
                                                             seedPoints, picks, turn)])
  /\ ret' = Ret("generatePreConstraints", "returned", NoPromise, NoChunk, FALSE)
  /\ UNCHANGED << chunks, objs, spatialIndex, tasks, promises, frameBudget, issued, log,
                  calls, probe, render, frame, frames >>

GeneratePreConstraints(k) ==
  /\ passes[k].pc = "preConstraints"
  /\ preConstraints = None
  /\ \E buildingDensity \in Densities, voronoi \in VoronoiMaps,
        picks \in [1..MaxExpansions -> 1..MaxPicks], turn \in 1..MaxPicks :
       \E seedPoints \in SeedChoices(availableForSeeds(voronoi), seedCount(voronoi)) :
         GeneratePreConstraintsFor(k, buildingDensity, voronoi, seedPoints, picks, turn)

\* ---------------------------------------------------------- specification
\* new WorldMap(), new ChunkGenerationQueue(frameBudget)
\* No call of calculateChunkNeighbors is under way.
NoProbe == [center |-> [q |-> 0, r |-> 0], rings |-> 0, out |-> None]

\* The state after construction, with the arguments p of the function call
\* that is looked at on its own.
InitProbe(r, budget, p) ==
  /\ chunks = << >>
  /\ objs = << >>
  /\ spatialIndex = << >>
  /\ tasks = << >>
  /\ promises = << >>
  /\ frameBudget = budget
  /\ ret = Ret("new", "done", NoPromise, NoChunk, FALSE)
  /\ log = << >>
  /\ issued = << >>
  /\ currentRings = r
  /\ baseRings = setCurrentRings(r, DefaultBaseRings)
  /\ calls = << >>
  /\ probe = p
  /\ passes = << >>
  /\ preConstraints = None
  /\ frames = 0
  /\ layout = None
  /\ FrameInit

InitSession(r, budget) == InitProbe(r, budget, NoProbe)

InitWith(r) == InitSession(r, DefaultFrameBudget)

Init == InitWith(Rings)

EnqueueAny == \E c \in Centers, p \in Priorities : Enqueue(c, Rings, p)
RemoveAny == \E c \in Centers : RemoveChunk(c)

Next ==
  \/ EnqueueAny
  \/ ProcessNext
  \/ Clear
  \/ RemoveAny

Spec == Init /\ [][Next]_vars

\* The frame loop alone: callers enqueue, and processNext runs once per frame
\* (onBeforeRender).  Nothing calls clear() or removeChunk().
QueueNext ==
  \/ EnqueueAny
  \/ ProcessNext

LoopSpec == Init /\ [][QueueNext]_vars

\* The WorldMap with its lookups: chunks are made through the queue at one
\* priority, removed, and tiles are looked up.
EnqueueLow == \E c \in Centers : Enqueue(c, Rings, 1)
LookupFast == \E h \in LookupTiles, r \in LookupRings : GetChunkForTileFast(h, r)
LookupTile ==
  \E h \in LookupTiles, r \in LookupRings, withMap \in BOOLEAN :
    GetChunkForTile(h, r, withMap)

MapNext ==
  \/ EnqueueLow
  \/ ProcessNext
  \/ RemoveAny
  \/ LookupFast
  \/ LookupTile

MapSpec == Init /\ [][MapNext]_vars

\* A WorldMap filled at one session radius, through createChunk and through
\* the queue.
CreateInit == \E r \in GridRings : InitWith(r)
CreateAny == \E c \in Centers : CreateChunk(c, currentRings)
ResumeAny == \E k \in 1..Len(calls) : ResumeCreateChunk(k)
EnqueueSession ==
  /\ Len(promises) < MaxSessionTasks
  /\ \E c \in Centers : Enqueue(c, currentRings, 1)

CreateNext ==
  \/ CreateAny
  \/ ResumeAny
  \/ EnqueueSession
  \/ ProcessNext

CreateSpec == CreateInit /\ [][CreateNext]_vars

\* calculateChunkNeighbors on its own: Init draws the center and the radius,
\* the action applies the function once.
ProbeCoords == (0 - MaxCoord)..MaxCoord
ProbeCenters == { [q |-> x, r |-> y] : x \in ProbeCoords, y \in ProbeCoords }
ProbeRings == 0..MaxProbeRings

NeighborInit ==
  \E c \in ProbeCenters, r \in ProbeRings :
    InitProbe(Rings, DefaultFrameBudget, [center |-> c, rings |-> r, out |-> None])

ComputeNeighbors ==
  /\ probe.out = None
  /\ probe' = [probe EXCEPT !.out = Some(calculateChunkNeighbors(probe.center, probe.rings))]
  /\ UNCHANGED << chunks, objs, spatialIndex, tasks, promises, frameBudget, ret, issued,
                  log, currentRings, calls, render, frame, preConstraints, frames,
                  baseRings >>

NeighborSpec == NeighborInit /\ [][ComputeNeighbors]_vars

\* A session in which the grid is rendered: chunks of radius RenderRings are
\* made through the queue, proximity ticks disable and re-enable them, and
\* renderGrid is called with and without forceRecompute.
RenderInit == InitWith(RenderRings)
EnqueueRender == \E c \in Centers : Enqueue(c, currentRings, 1)
RenderAny == \E forceRecompute \in BOOLEAN : RenderGrid(forceRecompute)
ResumeRenderAny == \E k \in 1..Len(passes) : ResumeRenderGrid(k)
\* The ticks disable distant chunks, never the one the player stands on
\* (the origin here).
TickCenters == Centers \ { [q |-> 0, r |-> 0] }
ProximityTick == \E c \in TickCenters, enabled \in BOOLEAN : SetChunkEnabled(c, enabled)

RenderNext ==
  \/ EnqueueRender
  \/ ProcessNext
  \/ RenderAny
  \/ ResumeRenderAny
  \/ ProximityTick

RenderSpec == RenderInit /\ [][RenderNext]_vars

\* The proximity check with the queue: the origin chunk is made by
\* createChunk at the session radius, the avatar's tile is any of TickTiles
\* (it may jump), and chunks may be made at the far center as well.
FarCenter == [q |-> FarHexes, r |-> 0]
FarTile == [q |-> 0 - FarHexes, r |-> 0]
TickTiles == { [q |-> 0, r |-> 0], [q |-> 0 - 1, r |-> 0], [q |-> 0 - 1, r |-> 1],
               [q |-> 0 - 2, r |-> 0 - 1], FarCenter, FarTile }
TickInit == InitWith(TickRings)
CreateOrigin == \E c \in { [q |-> 0, r |-> 0], FarCenter } : CreateChunk(c, currentRings)
ProximityAny == \E tile \in TickTiles : ProximityCheck(tile)

TickNext ==
  \/ CreateOrigin
  \/ ProximityAny
  \/ ProcessNext

TickSpec == TickInit /\ [][TickNext]_vars

\* The frame loop with a single task: one enqueue at the session radius,
\* then processNext once per frame, the frames being counted.  The session
\* radius and the frame budget are drawn at the start.
FrameBudgets == { 0, DefaultFrameBudget, 2 * SlowStepTime }
FrameLoopInit == \E r \in GridRings, budget \in FrameBudgets : InitSession(r, budget)
EnqueueFirst ==
  /\ Len(promises) = 0
  /\ \E c \in Centers, p \in Priorities : Enqueue(c, currentRings, p)
FrameTick ==
  /\ frames < MaxFrames
  /\ processNext
  /\ frames' = IF Len(promises) > 0 THEN frames + 1 ELSE frames

FrameLoopNext ==
  \/ EnqueueFirst
  \/ FrameTick

FrameLoopSpec == FrameLoopInit /\ [][FrameLoopNext]_vars

\* The floating origin on its own: the avatar walks, and every frame calls
\* updateFloatingOrigin.
StepDeltas == { [q |-> StepHexes, r |-> 0], [q |-> 0 - StepHexes, r |-> 0],
                [q |-> 0, r |-> StepHexes], [q |-> 0, r |-> 0 - StepHexes] }
WalkAvatar == \E d \in StepDeltas : MoveAvatar(d)

OriginNext ==
  \/ WalkAvatar
  \/ UpdateFloatingOrigin

OriginSpec == Init /\ [][OriginNext]_vars

\* A session with one chunk and a render pass whose layout run is computed.
LayoutInit == InitWith(RenderRings)
LayoutCreate == Len(chunks) = 0 /\ CreateChunk([q |-> 0, r |-> 0], currentRings)
LayoutRender == RenderGrid(FALSE)
LayoutGenerate == \E k \in 1..Len(passes) : GeneratePreConstraints(k)
LayoutResume ==
  \E k \in 1..Len(passes) :
    /\ preConstraints # None
    /\ preConstraints[1].pass = k
    /\ ResumeRenderGrid(k)

LayoutNext ==
  \/ LayoutCreate
  \/ LayoutRender
  \/ LayoutGenerate
  \/ LayoutResume

LayoutSpec == LayoutInit /\ [][LayoutNext]_vars

\* Sessions of small radius with render passes: the origin chunk and its
\* first packing neighbor are made by createChunk at the base ring count
\* (chunks this small are initialized in createChunk's first batch),
\* and every render pass runs the pre-constraint generation with the rings
\* of its expanded constraints.
SessionRings == 1..MaxSessionRings
RingsInit == \E r \in SessionRings : InitWith(r)
RingsCenters ==
  { [q |-> 0, r |-> 0], calculateChunkNeighbors([q |-> 0, r |-> 0], baseRings)[1] }
RingsCreate == \E c \in RingsCenters : CreateChunk(c, baseRings)
RingsRender == RenderGrid(FALSE)
RingsGenerate ==
  \E k \in 1..Len(passes), voronoi \in VoronoiMaps :
    /\ passes[k].pc = "preConstraints"
    /\ GeneratePreConstraintsFor(k, "sparse", voronoi,
         CHOOSE s \in SeedChoices(availableForSeeds(voronoi), seedCount(voronoi)) : TRUE,
         [i \in 1..MaxExpansions |-> 1], 1)
RingsResume ==
  \E k \in 1..Len(passes) :
    /\ preConstraints # None
    /\ preConstraints[1].pass = k
    /\ ResumeRenderGrid(k)

RingsNext ==
  \/ RingsCreate
  \/ RingsRender
  \/ RingsGenerate
  \/ RingsResume

RingsSpec == RingsInit /\ [][RingsNext]_vars

\* hexAStar on its own: Init draws the start, the goal and the set of hexes
\* isValid accepts, the action applies the function once.
PathHexes ==
  { [q |-> 0, r |-> 0], [q |-> 1, r |-> 0], [q |-> 0 - 1, r |-> 0], [q |-> 0, r |-> 1],
    [q |-> 0, r |-> 0 - 1], [q |-> 1, r |-> 0 - 1], [q |-> 0 - 1, r |-> 1],
    [q |-> 2, r |-> 0 - 1], [q |-> 2, r |-> 0] }
PathInit ==
  \E start \in PathHexes, goal \in PathHexes, isValid \in SUBSET PathHexes :
    InitProbe(Rings, DefaultFrameBudget,
              [start |-> start, goal |-> goal, isValid |-> isValid, out |-> None])
FindPath ==
  /\ probe.out = None
  /\ probe' = [probe EXCEPT !.out = Some(hexAStar(probe.start, probe.goal, probe.isValid))]
  /\ UNCHANGED << chunks, objs, spatialIndex, tasks, promises, frameBudget, ret, issued,
                  log, currentRings, calls, render, frame, preConstraints, frames,
                  baseRings >>

PathSpec == PathInit /\ [][FindPath]_vars

\* The queue with every frame budget: callers enqueue, processNext runs,
\* clear() and removeChunk() may be called at any time.
BudgetInit == \E budget \in FrameBudgets : InitSession(Rings, budget)
BudgetSpec == BudgetInit /\ [][Next]_vars

\* The lattice of chunk centers on its own: Init draws the radius and a hex
\* of the region; each step adds the packing neighbors of every center found
\* so far, the origin being the first.
LatticeRings == 1..MaxLatticeRings
LatticeInit ==
  \E r \in LatticeRings, hex \in Range(generateHexGrid(RegionRadius, 0, 0)) :
    InitProbe(Rings, DefaultFrameBudget,
              [rings |-> r, hex |-> hex, centers |-> { [q |-> 0, r |-> 0] }, depth |-> 0])
TakeNeighbors ==
  /\ probe.depth < MaxLatticeDepth
  /\ probe' = [probe EXCEPT
                 !.centers = @ \cup UNION { Range(calculateChunkNeighbors(c, probe.rings)) :
                                            c \in probe.centers },
                 !.depth = @ + 1]
  /\ UNCHANGED << chunks, objs, spatialIndex, tasks, promises, frameBudget, ret, issued,
                  log, currentRings, calls, render, frame, preConstraints, frames,
                  baseRings >>

LatticeSpec == LatticeInit /\ [][TakeNeighbors]_vars

\* createChunk beside the queue, with clear(): the session of CreateSpec in
\* which the queue may be cleared at any time.
ClearNext ==
  \/ CreateAny
  \/ ResumeAny
  \/ EnqueueSession
  \/ ProcessNext
  \/ Clear

ClearSpec == CreateInit /\ [][ClearNext]_vars

\* ----------------------------------------------------------------- claims
Created(p) == p <= Len(promises)
InQueue(p) == \E i \in 1..Len(tasks) : tasks[i].value.promise = p
TaskOfPromise(p) == tasks[CHOOSE i \in 1..Len(tasks) : tasks[i].value.promise = p].value
PromiseIds == 1..MaxTasks

\* C1: exceeding the frame budget never loses work: every task that was
\* enqueued is eventually resolved with the chunk of its center and removed
\* from the queue, whichever step calls run over the budget.  Stated on finite
\* runs of the frame loop: once processNext finds nothing left to do (it
\* returns idle, and every later call does the same until the next enqueue),
\* every task created so far has been resolved and removed.
C1_IdleMeansAllResolved ==
  (ret.op = "processNext" /\ ret.branch = "idle") =>
    \A p \in PromiseIds :
      Created(p) => /\ promises[p].state = "fulfilled"
                    /\ promises[p].value = getChunk(chunks, issued[p])
                    /\ ~ InQueue(p)

UniqueTaskKeys == \A i, j \in 1..Len(tasks) : tasks[i].key = tasks[j].key => i = j

\* C2: the queue never holds two tasks for one chunk center; an enqueue on a
\* center that has a task adds no task, no chunk and no promise, leaves the
\* task with priority max(existing, new), and returns the promise that the
\* enqueue which created the task returned.
C2_OneTaskPerCenter ==
  /\ UniqueTaskKeys
  /\ [][ /\ UniqueTaskKeys'
         /\ \A c \in Centers, p \in Priorities :
              (hasTask(c) /\ Enqueue(c, Rings, p)) =>
                LET old == MapGet(tasks, getTaskKey(c)) IN
                /\ Len(tasks') = Len(tasks)
                /\ MapHas(tasks', getTaskKey(c))
                /\ chunks' = chunks
                /\ objs' = objs
                /\ promises' = promises
                /\ MapGet(tasks', getTaskKey(c)).priority =
                     (IF p > old.priority THEN p ELSE old.priority)
                /\ MapGet(tasks', getTaskKey(c)).promise = old.promise
                /\ ret'.promise = old.promise
                /\ issued[old.promise] = c
       ]_vars

\* An enqueue has just found the task of its center and returned its promise.
C2_Witness ==
  /\ ret.op = "enqueue"
  /\ ret.branch = "existing"
  /\ InQueue(ret.promise)
  /\ TaskOfPromise(ret.promise).priority = MaxPriority

\* C3: enqueue on a center with no chunk and no task puts a new, empty,
\* uninitialized chunk for the center into the WorldMap in the same call and
\* attaches one pending task to it, so getChunk / hasChunk see the chunk
\* right after the call.
C3_PlaceholderInserted ==
  [][ \A c \in Centers, p \in Priorities :
        (~ hasChunk(chunks, c) /\ ~ hasTask(c) /\ Enqueue(c, Rings, p)) =>
          LET chunk == getChunk(chunks', c) IN
          /\ hasChunk(chunks', c)
          /\ chunk = Len(objs) + 1
          /\ Len(objs') = Len(objs) + 1
          /\ objs'[chunk].positionHex = c
          /\ objs'[chunk].grid = << >>
          /\ ~ objs'[chunk].initialized
          /\ Len(tasks') = Len(tasks) + 1
          /\ MapHas(tasks', getTaskKey(c))
          /\ MapGet(tasks', getTaskKey(c)).status = "pending"
          /\ MapGet(tasks', getTaskKey(c)).chunkHex = c
    ]_vars

\* The first enqueue of a behaviour has created the first chunk and task.
C3_Witness ==
  /\ ret.op = "enqueue"
  /\ ret.branch = "created"
  /\ Len(objs) = 1
  /\ Len(promises) = 1
  /\ hasChunk(chunks, issued[1])
  /\ objs[getChunk(chunks, issued[1])].grid = << >>

\* C4: enqueue on a center whose chunk is present and initialized and which
\* has no task returns an already resolved future carrying that chunk and
\* changes neither the queue nor the WorldMap.
C4_ReadyFuture ==
  [][ \A c \in Centers, p \in Priorities :
        ( /\ hasChunk(chunks, c)
          /\ objs[getChunk(chunks, c)].initialized
          /\ ~ hasTask(c)
          /\ Enqueue(c, Rings, p) ) =>
          /\ ret'.ready = getChunk(chunks, c)
          /\ ret'.promise = NoPromise
          /\ UNCHANGED << tasks, promises, chunks, objs, spatialIndex >>
    ]_vars

\* An enqueue has just returned a ready future for an initialized chunk.
C4_Witness ==
  /\ ret.op = "enqueue"
  /\ ret.branch = "ready"
  /\ ret.ready # NoChunk
  /\ objs[ret.ready].initialized
  /\ ~ hasTask(objs[ret.ready].positionHex)

\* C5: enqueue never replaces a chunk that is present; when the chunk at the
\* center is present, not initialized and has no task, enqueue attaches a new
\* pending task to it and the WorldMap holds the same chunk object as before.
C5_PlaceholderKept ==
  [][ \A c \in Centers, p \in Priorities :
        (hasChunk(chunks, c) /\ Enqueue(c, Rings, p)) =>
          /\ getChunk(chunks', c) = getChunk(chunks, c)
          /\ Len(objs') = Len(objs)
          /\ (~ objs[getChunk(chunks, c)].initialized /\ ~ hasTask(c)) =>
               /\ MapHas(tasks', getTaskKey(c))
               /\ MapGet(tasks', getTaskKey(c)).status = "pending"
               /\ MapGet(tasks', getTaskKey(c)).promise = Len(promises) + 1
               /\ ret'.promise = Len(promises) + 1
               /\ Len(tasks') = Len(tasks) + 1
               /\ objs' = objs
    ]_vars

\* A second task has been attached to the placeholder the first task made.
C5_Witness ==
  /\ ret.op = "enqueue"
  /\ ret.branch = "created"
  /\ Len(promises) = 2
  /\ issued[1] = issued[2]
  /\ Len(objs) = 1
  /\ getChunk(chunks, issued[2]) = 1
  /\ InQueue(2)


\* The tiles of a chunk of Rings rings.
TilesPerChunk == 3 * Rings * (Rings + 1) + 1
GridStep == "stepGenerateGrid"
NeighborsStep == "stepComputeNeighbors"
IndexStep == "stepUpdateSpatialIndex"
IsSettle(e) == e.ev \in {"completed", "failed", "cleared"}

\* The step calls of one task, in the order they ran: Grid batches first, the
\* last of them finishing the grid; Neighbors once, right after the last Grid
\* batch; Index batches after Neighbors; "completed" right after the Index
\* batch that finished the chunk's tiles; nothing after a settlement.
OrderedLog(l) ==
  \A i \in 1..Len(l) :
    /\ l[i].ev = GridStep =>
         \A j \in 1..(i - 1) : l[j].ev = GridStep /\ l[j].gridIndex < l[j].gridTotal
    /\ l[i].ev = NeighborsStep =>
         /\ i > 1
         /\ l[i - 1].ev = GridStep
         /\ l[i - 1].gridIndex = l[i - 1].gridTotal
    /\ l[i].ev = IndexStep =>
         /\ i > 1
         /\ l[i - 1].ev \in {NeighborsStep, IndexStep}
         /\ l[i - 1].ev = IndexStep => l[i - 1].idxIndex < l[i - 1].idxTotal
    /\ l[i].ev = "completed" =>
         /\ i > 1
         /\ l[i - 1].ev = IndexStep
         /\ l[i - 1].idxIndex = l[i - 1].idxTotal
         /\ l[i - 1].idxTotal = TilesPerChunk
    /\ IsSettle(l[i]) => i = Len(l)

\* C6: for every task the steps run in the strict order Grid, Neighbors,
\* Index, resolve, over any number of frames: Neighbors runs only after the
\* last Grid batch (an initialized chunk holds the whole grid), a spatial
\* index entry is written only after Neighbors has run (every entry points to
\* the center of an initialized chunk), the waiter is resolved only after the
\* last Index batch (at that moment the chunk is initialized with its whole
\* grid and the last tile of the grid is indexed under the task's center), and
\* no step of a task runs after its waiter was resolved or rejected.
C6_StepOrder ==
  /\ [](\A p \in PromiseIds : Created(p) =>
          /\ OrderedLog(log[p])
          /\ promises[p].state = "fulfilled" <=>
               (log[p] # << >> /\ log[p][Len(log[p])].ev = "completed")
          /\ promises[p].state = "rejected" <=>
               (log[p] # << >> /\ log[p][Len(log[p])].ev \in {"failed", "cleared"}))
  /\ [](\A o \in 1..Len(objs) :
          objs[o].initialized => Len(objs[o].grid) = TilesPerChunk)
  /\ [](\A tileKey \in DOMAIN spatialIndex :
          \E o \in 1..Len(objs) : /\ objs[o].positionHex = spatialIndex[tileKey]
                                  /\ objs[o].initialized)
  /\ [][ \A p \in PromiseIds : Created(p) =>
           /\ (promises[p].state = "pending" /\ promises'[p].state = "fulfilled") =>
                LET grid == objs'[promises'[p].value].grid IN
                /\ Len(grid) = TilesPerChunk
                /\ objs'[promises'[p].value].initialized
                /\ tileKeyOf(grid[Len(grid)].hex) \in DOMAIN spatialIndex'
                /\ spatialIndex'[tileKeyOf(grid[Len(grid)].hex)] = issued[p]
           /\ promises[p].state # "pending" =>
                /\ log'[p] = log[p]
                /\ promises'[p] = promises[p]
       ]_vars

\* A task has run two Grid batches, Neighbors and two Index batches and its
\* waiter is resolved.
C6_Witness ==
  \E p \in PromiseIds :
    /\ Created(p)
    /\ promises[p].state = "fulfilled"
    /\ Len(log[p]) = 6
    /\ log[p][2].ev = GridStep
    /\ log[p][3].ev = NeighborsStep
    /\ log[p][5].ev = IndexStep
    /\ log[p][6].ev = "completed"


\* The task a processNext call worked on: the one whose log the call extended.
WorkedOn(p) == Created(p) /\ InQueue(p) /\ log'[p] # log[p]

\* C7: each processNext call works on the task of highest priority among
\* the tasks in the queue, and among tasks of that priority on a pending one
\* in preference to a generating one; no task of strictly lower priority is
\* advanced while a task of higher priority is in the queue.
C7_HighestPriorityFirst ==
  [][ ret'.op = "processNext" =>
        \A p \in PromiseIds : WorkedOn(p) =>
          \A i \in 1..Len(tasks) :
            /\ tasks[i].value.priority <= TaskOfPromise(p).priority
            /\ ( /\ tasks[i].value.priority = TaskOfPromise(p).priority
                 /\ tasks[i].value.status = "pending" )
                 => TaskOfPromise(p).status = "pending"
    ]_vars

\* C8: the result of processNext tells whether work remains: it is false
\* exactly when the queue holds no task after the call and true exactly when
\* at least one task is still in the queue after the call.
C8_ResultTellsWorkRemains ==
  ret.op = "processNext" => (ret.more <=> Len(tasks) > 0)


PlaceholderNotFound == "Chunk generation failed: Chunk placeholder not found"

\* C9: when processNext selects a pending task whose placeholder chunk is no
\* longer in the WorldMap, the task becomes failed, its waiter is rejected,
\* the task is removed from the queue, and nothing is partially committed:
\* that call creates no chunk, marks none initialized and writes no spatial
\* index entry.  (No step function of the source has a throw or a call that
\* can raise, so the missing placeholder is the one way into the catch.)
C9_MissingPlaceholderFails ==
  [][ LET sel == FindReadyTask(sortedTasksOf(tasks)) IN
      ( /\ ret'.op = "processNext"
        /\ sel # None
        /\ sel[1].status = "pending"
        /\ ~ hasChunk(chunks, sel[1].chunkHex) ) =>
        LET p == sel[1].promise
            key == getTaskKey(sel[1].chunkHex)
        IN /\ promises'[p].state = "rejected"
           /\ promises'[p].value = PlaceholderNotFound
           /\ log'[p] = Append(log[p], Settled("failed"))
           /\ ~ MapHas(tasks', key)
           /\ Len(tasks') = Len(tasks) - 1
           /\ \A q \in PromiseIds : (Created(q) /\ q # p) => promises'[q] = promises[q]
           /\ UNCHANGED << chunks, objs, spatialIndex >>
    ]_vars

\* processNext has just failed a task whose placeholder had been removed.
C9_Witness ==
  /\ ret.op = "processNext"
  /\ ret.branch = "failed"
  /\ \E p \in PromiseIds :
       /\ Created(p)
       /\ promises[p].state = "rejected"
       /\ promises[p].value = PlaceholderNotFound
       /\ log[p] = << Settled("failed") >>
       /\ ~ InQueue(p)
       /\ ~ hasChunk(chunks, issued[p])


QueueCleared == "Chunk generation queue cleared"

\* The last task created for center c was rejected by clear() and the center
\* has had no task since.
LastCleared(c) ==
  \E p \in PromiseIds :
    /\ Created(p)
    /\ issued[p] = c
    /\ \A q \in PromiseIds : (Created(q) /\ q > p) => issued[q] # c
    /\ log[p] # << >>
    /\ log[p][Len(log[p])].ev = "cleared"

\* What a clear() call does: the waiter of every task in the queue is
\* rejected with the queue-cleared error, every other promise keeps its
\* state, the queue is empty afterwards and the WorldMap is untouched.
ClearEffect ==
  ret'.op = "clear" =>
    /\ \A p \in PromiseIds : Created(p) =>
         IF InQueue(p)
           THEN /\ TaskOfPromise(p).status \in {"pending", "generating"}
                /\ promises'[p].state = "rejected"
                /\ promises'[p].value = QueueCleared
           ELSE promises'[p] = promises[p]
    /\ tasks' = << >>
    /\ UNCHANGED << chunks, objs, spatialIndex >>

\* An enqueue that starts a fresh task for center c.
FreshTask(c) ==
  /\ Len(promises') = Len(promises) + 1
  /\ Len(tasks') = Len(tasks) + 1
  /\ MapHas(tasks', getTaskKey(c))
  /\ MapGet(tasks', getTaskKey(c)).status = "pending"
  /\ MapGet(tasks', getTaskKey(c)).promise = Len(promises) + 1
  /\ ret'.promise = Len(promises) + 1
  /\ promises'[Len(promises) + 1].state = "pending"

C11_FirstWriterWins ==
  [][ ret'.op = "processNext" =>
        \A tileKey \in DOMAIN spatialIndex :
          /\ tileKey \in DOMAIN spatialIndex'
          /\ spatialIndex'[tileKey] = spatialIndex[tileKey]
    ]_vars


\* C12: in every reachable state every spatial index entry h -> c points to
\* a center c whose chunk is present in the WorldMap, whose tiles contain h,
\* and with distance(h, c) <= Rings.
C12_IndexPointsToPresentChunk ==
  \A tileKey \in DOMAIN spatialIndex :
    LET c == spatialIndex[tileKey] IN
    /\ hasChunk(chunks, c)
    /\ \E k \in 1..Len(objs[getChunk(chunks, c)].grid) :
         tileKeyOf(objs[getChunk(chunks, c)].grid[k].hex) = tileKey
    /\ distance(tileKey[1], tileKey[2], c.q, c.r) <= Rings


\* C13: getChunkForTileFast(h, R) returns the indexed center only if that
\* chunk is present and distance(h, center) <= R; whenever that verification
\* fails (chunk missing, or the hex outside the chunk's radius) it returns
\* none and the index entry of h has been deleted when the call returns.
C13_StaleEntryEvicted ==
  [][ \A h \in LookupTiles, r \in LookupRings :
        (tileKeyOf(h) \in DOMAIN spatialIndex /\ GetChunkForTileFast(h, r)) =>
          LET center == spatialIndex[tileKeyOf(h)] IN
          IF hasChunk(chunks, center) /\ distance(h.q, h.r, center.q, center.r) <= r
            THEN /\ ret'.hex = Some(center)
                 /\ spatialIndex' = spatialIndex
            ELSE /\ ret'.hex = None
                 /\ tileKeyOf(h) \notin DOMAIN spatialIndex'
    ]_vars


\* C14: removeChunk(c) removes the chunk at c and exactly the spatial index
\* entries that point to c, in one step; entries owned by other chunks and
\* all other chunks are unchanged, and removing an absent center changes
\* nothing.
C14_RemoveChunkExact ==
  [][ \A c \in Centers : RemoveChunk(c) =>
        IF hasChunk(chunks, c)
          THEN /\ ~ hasChunk(chunks', c)
               /\ \A c2 \in Centers \ {c} : getChunk(chunks', c2) = getChunk(chunks, c2)
               /\ objs' = objs
               /\ DOMAIN spatialIndex' \subseteq DOMAIN spatialIndex
               /\ \A tileKey \in DOMAIN spatialIndex :
                    IF spatialIndex[tileKey] = c
                      THEN tileKey \notin DOMAIN spatialIndex'
                      ELSE /\ tileKey \in DOMAIN spatialIndex'
                           /\ spatialIndex'[tileKey] = spatialIndex[tileKey]
          ELSE UNCHANGED << chunks, objs, spatialIndex >>
    ]_vars


\* The centers of the chunks present in the WorldMap.
PresentCenters == { objs[getAllChunks(chunks)[i]].positionHex : i \in 1..Len(chunks) }

\* The present centers within r of h.
CentersWithin(h, r) ==
  { c \in PresentCenters : distance(h.q, h.r, c.q, c.r) <= r }

\* C15: getChunkForTile, through the spatial index or the linear scan,
\* returns none iff no present chunk has its center within R of h, and
\* otherwise a present chunk whose center has the smallest distance to h
\* among the present chunks within R of h; a chunk centered on h wins
\* outright.
C15_NearestCenter ==
  [][ \A h \in LookupTiles, r \in LookupRings, withMap \in BOOLEAN :
        GetChunkForTile(h, r, withMap) =>
          IF CentersWithin(h, r) = {}
            THEN ret'.hex = None
            ELSE /\ ret'.hex # None
                 /\ ret'.hex[1] \in CentersWithin(h, r)
                 /\ \A c \in CentersWithin(h, r) :
                      distance(h.q, h.r, ret'.hex[1].q, ret'.hex[1].r)
                        <= distance(h.q, h.r, c.q, c.r)
    ]_vars


\* The tiles of a chunk of radius r.
TilesOfRadius(r) == 3 * r * (r + 1) + 1

\* C16: every initialized chunk of radius R >= 0, whether the queue or
\* createChunk initialized it, holds exactly 3R(R+1)+1 tiles with pairwise
\* distinct hexes, each at distance <= R from the chunk center.  R is the
\* session radius every call of the behaviour passes.
C16_GridOfInitializedChunk ==
  \A o \in 1..Len(objs) :
    objs[o].initialized =>
      LET grid == objs[o].grid
          center == objs[o].positionHex
      IN /\ Len(grid) = TilesOfRadius(currentRings)
         /\ Cardinality({ tileKeyOf(grid[k].hex) : k \in 1..Len(grid) }) = Len(grid)
         /\ \A k \in 1..Len(grid) :
              distance(center.q, center.r, grid[k].hex.q, grid[k].hex.r) <= currentRings

\* At radius Rings one chunk was initialized by a createChunk call that made
\* it and another one by a queue task.
C16_Witness ==
  /\ currentRings = Rings
  /\ \E k \in 1..Len(calls), p \in 1..Len(promises) :
       /\ calls[k].pc = "done"
       /\ calls[k].thenIndex
       /\ objs[calls[k].result].initialized
       /\ promises[p].state = "fulfilled"
       /\ promises[p].value # calls[k].result
       /\ objs[promises[p].value].initialized


\* The six centers around the origin chunk with two rings.
OriginNeighborsOfTwo ==
  { [q |-> 2, r |-> 3], [q |-> -3, r |-> 5], [q |-> -5, r |-> 2],
    [q |-> -2, r |-> -3], [q |-> 3, r |-> -5], [q |-> 5, r |-> -2] }

\* C17: for every chunk center and every radius R >= 0 the neighbor
\* computation yields exactly six pairwise distinct centers, each at hex
\* distance 2R+1 from the chunk center (1 when R = 0); for R = 2 at the
\* origin the set is {(2,3),(-3,5),(-5,2),(-2,-3),(3,-5),(5,-2)}.
C17_SixNeighbors ==
  probe.out # None =>
    LET neighbors == probe.out[1]
        c == probe.center
    IN /\ Len(neighbors) = 6
       /\ \A i, j \in 1..6 : neighbors[i] = neighbors[j] => i = j
       /\ \A i \in 1..6 :
            distance(c.q, c.r, neighbors[i].q, neighbors[i].r) = 2 * probe.rings + 1
       /\ (c = [q |-> 0, r |-> 0] /\ probe.rings = 2) =>
            Range(neighbors) = OriginNeighborsOfTwo

\* The neighbors of the origin chunk with two rings have been computed.
C17_Witness ==
  /\ probe.out # None
  /\ probe.center = [q |-> 0, r |-> 0]
  /\ probe.rings = 2
  /\ Len(probe.out[1]) = 6

\* C18: in every reachable state a chunk whose tilesGenerated flag is true
\* has a tile type on every tile of its grid.
C18_GeneratedTilesHaveKinds ==
  \A c \in 1..Len(objs) : objs[c].tilesGenerated => hasAllTilesGenerated(objs, c)


\* The tile types of the chunk object c, tile by tile.
KindsOf(o, c) == [k \in 1..Len(o[c].grid) |-> o[c].grid[k].tileType]

\* A step of a render pass that is not a force-recompute: its start, or its
\* continuation after generatePreConstraintsFn.
NonForceRenderStep ==
  \/ RenderGrid(FALSE)
  \/ \E k \in 1..Len(passes) : ~ passes[k].forceRecompute /\ ResumeRenderGrid(k)

\* C19: a step of a render pass that is not a force-recompute changes no
\* tile type of a chunk whose tilesGenerated flag is true, also when several
\* passes are in flight.
C19_GeneratedKindsStable ==
  [][NonForceRenderStep =>
       \A c \in 1..Len(objs) :
         objs[c].tilesGenerated => KindsOf(objs', c) = KindsOf(objs, c)]_vars


\* The start of a force-recompute pass clears the flag of every chunk that
\* is enabled then and leaves the disabled chunks as they are.
ForceStartEffect ==
  RenderGrid(TRUE) =>
    /\ Len(getEnabledChunks(chunks, objs)) > 0 =>
         /\ passes'[Len(passes')].pc = "preConstraints"
         /\ \A c \in Range(getEnabledChunks(chunks, objs)) : ~ objs'[c].tilesGenerated
    /\ \A c \in Range(getAllChunks(chunks)) :
         ~ objs[c].enabled => objs'[c] = objs[c]

\* The end of the force-recompute pass k: every chunk that was enabled at its
\* start has the kinds of the new layout on all its tiles and its flag set;
\* every chunk that was disabled at its start has the kinds and the flag it
\* had before the step.
ForceFinishEffect(k) ==
  (passes[k].forceRecompute /\ ResumeRenderGrid(k)) =>
    /\ \A c \in Range(passes[k].enabledChunks) :
         /\ objs'[c].tilesGenerated
         /\ \A i \in 1..Len(objs'[c].grid) :
              LET tile == objs'[c].grid[i] IN
              /\ tile.tileType # "null"
              /\ tile.tileType = tileTypeFromNumber(get_tile_at(layout', tile.hex.q, tile.hex.r))
    /\ \A c \in Range(passes[k].allChunks) \ Range(passes[k].enabledChunks) :
         /\ KindsOf(objs', c) = KindsOf(objs, c)
         /\ objs'[c].tilesGenerated = objs[c].tilesGenerated

ForceFinishEffectAmended(k) ==
  (passes[k].forceRecompute /\ ResumeRenderGrid(k)) =>
    /\ \A c \in Range(passes[k].enabledChunks) :
         /\ objs'[c].tilesGenerated
         /\ \A i \in 1..Len(objs'[c].grid) :
              LET tile == objs'[c].grid[i] IN
              /\ tile.tileType # "null"
              /\ tile.tileType = tileTypeFromNumber(get_tile_at(layout', tile.hex.q, tile.hex.r))
    /\ \A c \in Range(passes[k].allChunks) \ Range(passes[k].enabledChunks) :
         /\ objs'[c].tilesGenerated = objs[c].tilesGenerated
         /\ Len(objs'[c].grid) = Len(objs[c].grid)
         /\ \A i \in 1..Len(objs[c].grid) :
              objs[c].grid[i].tileType # "null"
                => objs'[c].grid[i].tileType = objs[c].grid[i].tileType
         /\ ~ objs[c].enabled => KindsOf(objs', c) = KindsOf(objs, c)

C30_TilesMirrorChunk ==
  \A c \in 1..Len(objs) :
    \A k \in 1..Len(objs[c].grid) : objs[c].grid[k].enabled = objs[c].enabled

\* C24: the avatar's true hex is the same before and after every
\* floating-origin rebase.
C24_TrueHexPreserved ==
  [][UpdateFloatingOrigin =>
       getCurrentTileHex(avatarPosition', worldHexOffset')
         = getCurrentTileHex(avatarPosition, worldHexOffset)]_vars

\* C25: a rebase is performed only when the avatar is beyond the threshold
\* from the floating origin, and it leaves the floating origin on the
\* avatar's position, so that a following tick without movement does not
\* rebase.
C25_OneRebase ==
  [][(UpdateFloatingOrigin /\ ret'.branch = "shifted") =>
       /\ BeyondThreshold(avatarPosition, currentFloatingOrigin)
       /\ currentFloatingOrigin' = avatarPosition'
       /\ ~ BeyondThreshold(avatarPosition', currentFloatingOrigin')]_vars


\* The centers a chunk of radius rings can have when it holds the tile.
CentersHolding(tile, rings) ==
  { h \in [q : (tile.q - rings)..(tile.q + rings), r : (tile.r - rings)..(tile.r + rings)] :
      distance(h.q, h.r, tile.q, tile.r) <= rings }

\* The proximity check runs for a tile other than the last one, the avatar
\* having been found in a chunk before.
JumpTo(tile) ==
  /\ currentChunkHex # None
  /\ previousTileHex # Some(tile)
  /\ ProximityCheck(tile)

\* C21: after the proximity check of a tick in which the avatar's tile has
\* jumped, every present chunk whose center is farther than 4R from the
\* chunk of the new tile (whichever center within R of the tile that chunk
\* has) is disabled.
C21_JumpDisablesDistant ==
  [][\A tile \in TickTiles :
       JumpTo(tile) =>
         \A i \in 1..Len(chunks') :
           LET c == chunks'[i].value
               pos == objs'[c].positionHex
           IN (\A center \in CentersHolding(tile, currentRings) :
                 distance(pos.q, pos.r, center.q, center.r) > 4 * currentRings)
                => ~ objs'[c].enabled]_vars


\* The tasks a step added to the queue.
AddedTasks ==
  { i \in 1..Len(tasks') : ~ MapHas(tasks, tasks'[i].key) }

\* Every task the queue held is still the same task after the step.
KeptTasks ==
  \A i \in 1..Len(tasks) :
    /\ MapHas(tasks', tasks[i].key)
    /\ MapGet(tasks', tasks[i].key) = tasks[i].value

\* The world distance of the two hex centers is at most 2.5 * R * hexSize * 1.5.
WithinPreload(a, b, rings) ==
  48 * SquaredWorldDistance(a, b) <= 225 * rings * rings

\* The center is one of the six packing neighbors of the current chunk and
\* none of them is nearer to the tile.
NearestNeighborOf(n, current, tile, rings) ==
  LET neighbors == calculateChunkNeighbors(current, rings)
  IN /\ \E i \in 1..Len(neighbors) : neighbors[i] = n
     /\ \A j \in 1..Len(neighbors) :
          SquaredWorldDistance(n, tile) <= SquaredWorldDistance(neighbors[j], tile)

\* The positions of the chunk objects the WorldMap holds are pairwise different.
OneChunkPerCenter(ch, o) ==
  \A i, j \in 1..Len(ch) :
    o[ch[i].value].positionHex = o[ch[j].value].positionHex => i = j

\* C22: a proximity check adds at most one task to the queue; the task it adds
\* has priority 100 and is for the nearest packing neighbor of the current
\* chunk, which is within the preload distance of the avatar's tile, has no
\* chunk or a chunk that is not initialized, and had no task; a neighbor whose
\* chunk is initialized gets no task; the tasks already queued are untouched,
\* at most one chunk object is created, and only for a center that had none.
C22_PreloadNearestOnly ==
  [][\A tile \in TickTiles : ProximityCheck(tile) =>
       /\ Cardinality(AddedTasks) <= 1
       /\ Len(promises') = Len(promises) + Cardinality(AddedTasks)
       /\ KeptTasks
       /\ \A i \in AddedTasks :
            LET task == tasks'[i].value
                n == task.chunkHex
                existingChunk == getChunk(chunks, n)
            IN /\ task.priority = 100
               /\ currentChunkHex' # None
               /\ NearestNeighborOf(n, currentChunkHex'[1], tile, currentRings)
               /\ WithinPreload(n, tile, currentRings)
               /\ existingChunk = NoChunk \/ ~ objs[existingChunk].initialized
               /\ ~ hasTask(n)
       /\ Len(objs') <= Len(objs) + 1
       /\ \A c \in (Len(objs) + 1)..Len(objs') :
            /\ getChunk(chunks, objs'[c].positionHex) = NoChunk
            /\ \E i \in AddedTasks : tasks'[i].value.chunkHex = objs'[c].positionHex
       /\ OneChunkPerCenter(chunks, objs) => OneChunkPerCenter(chunks', objs')]_vars

\* A proximity check has just enqueued the nearest neighbor at priority 100.
C22_Witness ==
  /\ ret.op = "proximityCheck"
  /\ ret.branch = "enqueued"
  /\ \E i \in 1..Len(tasks) :
       /\ tasks[i].value.priority = 100
       /\ tasks[i].value.promise = ret.promise


\* C23: a proximity check that reports the current chunk unchanged leaves the
\* enabled flag of every chunk as it was (the check itself runs no queue
\* step).
C23_MonotoneEnable ==
  [][\A tile \in TickTiles :
       (ProximityCheck(tile) /\ ~ ret'.more) =>
         \A c \in 1..Len(objs) : objs'[c].enabled = objs[c].enabled]_vars

\* A proximity check on a new tile has reported the current chunk unchanged
\* while a disabled chunk and the chunk of a preloaded neighbor are present.
C23_Witness ==
  /\ ret.op = "proximityCheck"
  /\ ret.branch = "checked"
  /\ ~ ret.more
  /\ currentChunkHex # None
  /\ Len(objs) = MaxTickChunks
  /\ \E c \in 1..Len(objs) : ~ objs[c].enabled


\* The hexes that can be reached from the seen ones through the given hexes,
\* going from a hex to one of its six neighbors.
RECURSIVE ReachableFrom(_, _)
ReachableFrom(seen, hexes) ==
  LET next == seen \cup { h \in hexes :
                            \E s \in seen : \E k \in 1..6 : getNeighbors(s.q, s.r)[k] = h }
  IN IF next = seen THEN seen ELSE ReachableFrom(next, hexes)

SingleComponent(hexes) ==
  \A a \in hexes : ReachableFrom({ a }, hexes) = hexes

\* C26: the road hexes of every layout run form one connected component of
\* the 6-neighbor hex graph.
C26_RoadsConnected ==
  preConstraints # None =>
    SingleComponent(Range(preConstraints[1].result.roadConstraints))

\* The hexes whose Voronoi kind is water.
WaterOf(result) ==
  { hex \in DOMAIN result.voronoiConstraints : result.voronoiConstraints[hex] = "water" }

\* C27: in the result of every layout run no road and no building lies on a
\* hex whose Voronoi kind is water, and no hex is both a road and a building.
C27_NoBuildOnWater ==
  preConstraints # None =>
    LET result == preConstraints[1].result
        roads == Range(result.roadConstraints)
        buildings == Range(result.buildingConstraints)
    IN /\ roads \cap WaterOf(result) = {}
       /\ buildings \cap WaterOf(result) = {}
       /\ roads \cap buildings = {}

\* A run on a grid cut by a row of water has placed roads and a building, one
\* of the roads next to the water.
C27_Witness ==
  /\ preConstraints # None
  /\ LET result == preConstraints[1].result
     IN /\ Cardinality(WaterOf(result)) > 1
        /\ Len(result.buildingConstraints) > 0
        /\ \E i \in 1..Len(result.roadConstraints) :
             \E k \in 1..6 :
               getNeighbors(result.roadConstraints[i].q,
                            result.roadConstraints[i].r)[k] \in WaterOf(result)

\* C28: when the grid of a layout run has no passable hex, the render pass
\* it belongs to writes no tile kind and leaves tilesGenerated false on every
\* chunk it was to generate.
C28_NoPassableNoOp ==
  \A k \in 1..Len(passes) :
    ( /\ preConstraints # None
      /\ preConstraints[1].pass = k
      /\ WaterOf(preConstraints[1].result) = DOMAIN preConstraints[1].result.voronoiConstraints
      /\ passes[k].pc = "done" )
    => \A i \in 1..Len(passes[k].chunksNeedingGeneration) :
         LET c == passes[k].chunksNeedingGeneration[i]
         IN /\ ~ objs[c].tilesGenerated
            /\ \A t \in 1..Len(objs[c].grid) : objs[c].grid[t].tileType = "null"

\* C29: a seed for which the path search returned null is not among the
\* roads of the run.
C29_FailedSeedDropped ==
  preConstraints # None =>
    \A seed \in preConstraints[1].result.noPath :
      seed \notin Range(preConstraints[1].result.roadConstraints)


\* The number of batches of the given size that n tiles make.
Batches(n, size) == (n + size - 1) \div size

\* The frames a chunk of radius r is given to become initialized.
FramesAllowed(r) ==
  Batches(3 * r * (r + 1) + 1, GRID_BATCH_SIZE)
    + Batches(3 * r * (r + 1) + 1, SPATIAL_INDEX_BATCH_SIZE) + 1

\* C31: with a single task in the queue and processNext called once per
\* frame, the chunk of the task is initialized once ceil(n/150) + ceil(n/200)
\* + 1 frames have passed since the enqueue, whatever the frame budget and
\* however long the steps take.
C31_InitializedInTime ==
  (Len(promises) = 1 /\ frames >= FramesAllowed(currentRings)) =>
    /\ getChunk(chunks, issued[1]) # NoChunk
    /\ isInitialized(objs, getChunk(chunks, issued[1]))

\* Every step of a chunk of radius Rings went over the budget: three frames
\* with one step call each, and the chunk is initialized.
C31_Witness ==
  /\ currentRings = Rings
  /\ Len(promises) = 1
  /\ frames = 3
  /\ Len(log[1]) = 3
  /\ getChunk(chunks, issued[1]) # NoChunk
  /\ isInitialized(objs, getChunk(chunks, issued[1]))

\* C32: the base ring count is constant for the whole session: no step of a
\* render pass, the setCurrentRings call of the pre-constraint generation
\* with the larger computed ring count included, changes baseRings.
C32_BaseRingsConstant == [][baseRings' = baseRings]_vars


\* The hexes reached from the hexes of S in at most n steps between
\* 6-neighbors, every hex entered being one isValid accepts.
RECURSIVE Within(_, _, _)
Within(S, isValid, n) ==
  IF n = 0 THEN S
  ELSE Within(S \cup { h \in isValid :
                         \E c \in S : h \in Range(getNeighbors(c.q, c.r)) },
              isValid, n - 1)
StepsTo(start, goal, isValid) ==
  CHOOSE n \in 0..Cardinality(isValid) :
    /\ goal \in Within({start}, isValid, n)
    /\ \A m \in 0..(n - 1) : goal \notin Within({start}, isValid, m)

\* C33: hexAStar over a finite valid set returns none exactly when the goal
\* cannot be reached from start through hexes isValid accepts; otherwise it
\* returns a path from start to goal that moves between 6-neighbors, enters
\* valid hexes only, and has the least possible number of steps.
C33_ShortestPath ==
  (probe.out # None) =>
    LET result == probe.out[1]
        reachable == probe.goal \in Within({probe.start}, probe.isValid,
                                           Cardinality(probe.isValid))
    IN /\ (result = None) <=> ~ reachable
       /\ result # None =>
            LET path == result[1] IN
            /\ path[1] = probe.start
            /\ path[Len(path)] = probe.goal
            /\ \A i \in 2..Len(path) :
                 /\ path[i] \in Range(getNeighbors(path[i - 1].q, path[i - 1].r))
                 /\ path[i] \in probe.isValid
            /\ Len(path) - 1 = StepsTo(probe.start, probe.goal, probe.isValid)

\* C33, the case: a path that has to go around a hex isValid rejects.
C33_Witness ==
  /\ probe.out # None
  /\ probe.out[1] # None
  /\ Len(probe.out[1][1]) - 1 >
       distance(probe.start.q, probe.start.r, probe.goal.q, probe.goal.r)


\* The candidate hexes of a layout result: passable (grass or forest), not a
\* road, and next to a road.
BuildingCandidates(result) ==
  { hex \in DOMAIN result.voronoiConstraints :
      /\ result.voronoiConstraints[hex] \in { "grass", "forest" }
      /\ hex \notin Range(result.roadConstraints)
      /\ isAdjacentToRoad(hex.q, hex.r, result.roadConstraints) }

\* C34: every layout run places exactly floor(rho * |candidates|) buildings,
\* rho being 5, 10 or 15 percent for sparse, medium and dense; every building
\* lies on a candidate hex (passable, not a road, next to a road of the final
\* layout) and no hex holds two buildings.
C34_BuildingCount ==
  preConstraints # None =>
    LET result == preConstraints[1].result
        buildings == result.buildingConstraints
        rho == CASE preConstraints[1].buildingDensity = "sparse" -> 5
                 [] preConstraints[1].buildingDensity = "medium" -> 10
                 [] preConstraints[1].buildingDensity = "dense" -> 15
    IN /\ Len(buildings) = (rho * Cardinality(BuildingCandidates(result))) \div 100
       /\ Range(buildings) \subseteq BuildingCandidates(result)
       /\ \A i, j \in 1..Len(buildings) : buildings[i] = buildings[j] => i = j

\* C34, the case: a dense run with at least two buildings placed among more
\* candidates than buildings.
C34_Witness ==
  /\ preConstraints # None
  /\ preConstraints[1].buildingDensity = "dense"
  /\ Len(preConstraints[1].result.buildingConstraints) >= 2
  /\ Cardinality(BuildingCandidates(preConstraints[1].result)) >
       Len(preConstraints[1].result.buildingConstraints)


\* The step cursor of a task: the step saved in task.currentStep and the two
\* batch indices of its processing state (0 and 0 before the task is started).
StepCursor(task) ==
  IF task.processingState = None THEN << task.currentStep, 0, 0 >>
  ELSE << task.currentStep, task.processingState[1].gridBatchIndex,
          task.processingState[1].spatialIndexBatchIndex >>
\* The processNext call selects the task `task` and runs at least one step
\* function on it; if the task stays in the queue its step cursor has changed.
RunsAStep(task) ==
  /\ Len(log'[task.promise]) > Len(log[task.promise])
  /\ log'[task.promise][Len(log[task.promise]) + 1].ev \in { GridStep, NeighborsStep, IndexStep }
  /\ MapHas(tasks', getTaskKey(task.chunkHex)) =>
       StepCursor(MapGet(tasks', getTaskKey(task.chunkHex))) # StepCursor(task)

\* C35 as stated: every processNext call that finds a pending task, or a
\* generating task with a saved step, runs at least one step function on the
\* selected task, whatever the frame budget, and the task's cursor changes.
C35_EveryCallRunsAStep ==
  [][ LET sel == FindReadyTask(sortedTasksOf(tasks)) IN
      (ret'.op = "processNext" /\ sel # None) => RunsAStep(sel[1]) ]_vars

\* C35, amended: a processNext call that selects a task runs at least one step
\* function on it, whatever the frame budget, and changes the task's step
\* cursor, unless the task is pending and its placeholder is no longer in the
\* WorldMap: then no step runs, and the task is failed and removed.
C35_RunsAStepOrFails ==
  [][ LET sel == FindReadyTask(sortedTasksOf(tasks)) IN
      (ret'.op = "processNext" /\ sel # None) =>
        IF sel[1].status = "pending" /\ ~ hasChunk(chunks, sel[1].chunkHex)
          THEN /\ log'[sel[1].promise] = Append(log[sel[1].promise], Settled("failed"))
               /\ ~ MapHas(tasks', getTaskKey(sel[1].chunkHex))
          ELSE RunsAStep(sel[1]) ]_vars

\* C35, the case: with a frame budget of zero a call has run exactly one step,
\* the Neighbors step, and returned over budget: the task is kept with the
\* Index step saved and both batch indices as the call found them.
C35_Witness ==
  /\ frameBudget = 0
  /\ ret.op = "processNext"
  /\ ret.branch = "budget"
  /\ \E i \in 1..Len(tasks) :
       /\ tasks[i].value.currentStep = IndexStep
       /\ tasks[i].value.processingState[1].spatialIndexBatchIndex = 0
       /\ log[tasks[i].value.promise][Len(log[tasks[i].value.promise])].ev = NeighborsStep


\* C36: in every reachable state the tile list of a chunk is either empty or
\* the complete list of the 3R(R+1)+1 hexes within R of its center; the
\* batches a task or a createChunk call has validated so far are not on the
\* chunk.  R is the session radius every call of the behaviour passes.
C36_TileListAtomic ==
  \A o \in 1..Len(objs) :
    LET grid == objs[o].grid
        center == objs[o].positionHex
    IN \/ Len(grid) = 0
       \/ /\ Len(grid) = TilesOfRadius(currentRings)
          /\ { grid[k].hex : k \in 1..Len(grid) } =
               Range(generateHexGrid(currentRings, center.q, center.r))

\* C36, the case: a task is between two Grid batches (some tiles validated,
\* not all) and its chunk, present in the WorldMap, has no tile.
C36_Witness ==
  \E i \in 1..Len(tasks) :
    LET task == tasks[i].value IN
    /\ task.status = "generating"
    /\ task.currentStep = GridStep
    /\ Len(task.processingState[1].validatedGrid) > 0
    /\ Len(task.processingState[1].validatedGrid) < TilesOfRadius(currentRings)
    /\ hasChunk(chunks, task.chunkHex)
    /\ Len(objs[getChunk(chunks, task.chunkHex)].grid) = 0


\* The lattice centers found so far whose chunk of the drawn radius holds the
\* drawn hex.
CentersCovering ==
  { c \in probe.centers : distance(c.q, c.r, probe.hex.q, probe.hex.r) <= probe.rings }

C38_FinishedChunkIndexed ==
  \A o \in 1..Len(objs) :
    ( /\ hasChunk(chunks, objs[o].positionHex)
      /\ getChunk(chunks, objs[o].positionHex) = o
      /\ objs[o].initialized
      /\ ~ hasTask(objs[o].positionHex) ) =>
      \A k \in 1..Len(objs[o].grid) : tileKeyOf(objs[o].grid[k].hex) \in DOMAIN spatialIndex


\* C39: after every proximity tick the recorded current chunk is either
\* unset or the center of a present chunk that holds the avatar's current
\* tile (the tile is within R of the center), wherever the avatar has moved.
C39_CurrentChunkHoldsTile ==
  (ret.op = "proximityCheck" /\ currentChunkHex # None) =>
    /\ hasChunk(chunks, currentChunkHex[1])
    /\ distance(previousTileHex[1].q, previousTileHex[1].r,
                currentChunkHex[1].q, currentChunkHex[1].r) <= baseRings


\* The step assigns a tile list to the chunk object o: a task on it has run
\* the Grid batch that reaches the end of the hex grid (chunk.setGrid), or a
\* createChunk call on it has come to the end of initializeAsync
\* (this.grid = validatedGrid).
GridAssigned(o) ==
  \/ \E i \in 1..Len(tasks) :
       LET task == tasks[i].value IN
       /\ getChunk(chunks, task.chunkHex) = o
       /\ \E n \in (Len(log[task.promise]) + 1)..Len(log'[task.promise]) :
            /\ log'[task.promise][n].ev = GridStep
            /\ log'[task.promise][n].gridIndex = log'[task.promise][n].gridTotal
  \/ \E k \in 1..Len(calls') :
       /\ calls'[k].chunk = o
       /\ calls'[k].pc # "grid"
       /\ IF k <= Len(calls) THEN calls[k].pc = "grid" ELSE ret'.branch # "existing"

\* C40: the tile list of a chunk is assigned at most once: no step of
\* createChunk, enqueue, processNext or clear assigns a tile list to a chunk
\* that already has one.
C40_TileListAssignedOnce ==
  [][ \A o \in 1..Len(objs) : Len(objs[o].grid) > 0 => ~ GridAssigned(o) ]_vars

====
